---- MODULE Spec2Model ----
(***************************************************************************)
(* Tab and navigation-history subsystem of the Horizon Browser             *)
(* (src/ui/src/tabs.rs): Tab, TabManager and the operations on them, and   *)
(* its collaborators: the update pass of the window (src/ui/src/window.rs),*)
(* address-bar normalisation, the settings conversion                      *)
(* (src/ui/src/settings.rs), the password manager                          *)
(* (src/storage/src/passwords.rs) and the VPN manager                      *)
(* (src/networking/src/vpn.rs). Each has its own specification; the        *)
(* variables of the others keep their construction values.                 *)
(* Indices are zero-based as in the source (usize); a Rust Vec v is the    *)
(* sequence whose element v[i] is v[i + 1] here.                           *)
(***************************************************************************)
EXTENDS Naturals, Integers, Sequences, FiniteSets, TLC

VARIABLES
    \* TabManager and the record of the call just made on it
    tabs, active_tab_index, next_id, last, pre, steps, fault,
    \* BrowserApp: fields beside tab_manager, and the position in update()
    url_input, tab_to_close, settings, frame,
    \* one process_url_input call: input, search engine, result
    url_io,
    \* one SettingsUI value, its stored form and the value read back
    conv,
    \* PasswordManager and the record of the call just made on it
    pwd, pwd_log,
    \* VpnManager and the record of the call just made on it
    vpn, vpn_log

tabVars == <<tabs, active_tab_index, next_id, last, pre, steps, fault>>
appVars == <<url_input, tab_to_close, settings, frame>>
pwdVars == <<pwd, pwd_log>>
vpnVars == <<vpn, vpn_log>>

vars == <<tabs, active_tab_index, next_id, last, pre, steps, fault,
          url_input, tab_to_close, settings, frame, url_io, conv,
          pwd, pwd_log, vpn, vpn_log>>

\* ---------------------------------------------------------------- bounds
MaxTabs == 3
MaxSteps == 6

\* ---------------------------------------------------------------- inputs
HomeUrl == "about:home"
NewTabTitle == "New Tab"
Urls == {HomeUrl, "https://example.com"}
Titles == {"Example"}
\* usize arguments of close_tab / switch_to_tab, out-of-range values included
Indices == 0 .. MaxTabs

\* ---------------------------------------------------------------- Vec helpers
\* Vec::truncate(n): keep the first n elements, no effect when n >= len
Truncate(v, n) == IF n < Len(v) THEN SubSeq(v, 1, n) ELSE v

\* Vec::remove(i): remove the element at zero-based position i
VecRemove(v, i) == SubSeq(v, 1, i) \o SubSeq(v, i + 2, Len(v))

\* v[i] of the source, zero-based
At(v, i) == v[i + 1]

\* ---------------------------------------------------------------- Tab
\* Tab::new that starts the tab in the loading state
TabNew_loading(id, url) ==
    [id |-> id, url |-> url, title |-> NewTabTitle,
     history |-> <<url>>, history_index |-> 0, is_loading |-> TRUE]

TabNew(id, url) ==
    [id |-> id, url |-> url, title |-> NewTabTitle,
     history |-> <<url>>, history_index |-> 0, is_loading |-> FALSE]

can_go_back(t) == t.history_index > 0

can_go_forward(t) == t.history_index < Len(t.history) - 1

\* navigate_to without the truncation of the forward branch
navigate_to_keep_forward(t, url) ==
    LET h2 == Append(t.history, url)
    IN [t EXCEPT !.history = h2,
                 !.history_index = Len(h2) - 1,
                 !.url = url,
                 !.is_loading = TRUE]

navigate_to(t, url) ==
    LET h1 == IF t.history_index < Len(t.history) - 1
              THEN Truncate(t.history, t.history_index + 1)
              ELSE t.history
        h2 == Append(h1, url)
    IN [t EXCEPT !.history = h2,
                 !.history_index = Len(h2) - 1,
                 !.url = url,
                 !.is_loading = TRUE]

\* go_back that moves the cursor but keeps the old url
go_back_stale_url(t) ==
    IF can_go_back(t)
    THEN [tab |-> [t EXCEPT !.history_index = t.history_index - 1,
                            !.is_loading = TRUE],
          ret |-> TRUE]
    ELSE [tab |-> t, ret |-> FALSE]

\* go_back that marks the tab loading before it tests the cursor
go_back_always_loading(t) ==
    IF can_go_back(t)
    THEN [tab |-> [t EXCEPT !.history_index = t.history_index - 1,
                            !.url = At(t.history, t.history_index - 1),
                            !.is_loading = TRUE],
          ret |-> TRUE]
    ELSE [tab |-> [t EXCEPT !.is_loading = TRUE], ret |-> FALSE]

\* go_back that refuses to return to the first entry
go_back_strict(t) ==
    IF t.history_index > 1
    THEN [tab |-> [t EXCEPT !.history_index = t.history_index - 1,
                            !.url = At(t.history, t.history_index - 1),
                            !.is_loading = TRUE],
          ret |-> TRUE]
    ELSE [tab |-> t, ret |-> FALSE]

\* go_back that drops the entries beyond the new cursor
go_back_truncating(t) ==
    IF can_go_back(t)
    THEN [tab |-> [t EXCEPT !.history = Truncate(t.history, t.history_index),
                            !.history_index = t.history_index - 1,
                            !.url = At(t.history, t.history_index - 1),
                            !.is_loading = TRUE],
          ret |-> TRUE]
    ELSE [tab |-> t, ret |-> FALSE]

go_back(t) ==
    IF can_go_back(t)
    THEN [tab |-> [t EXCEPT !.history_index = t.history_index - 1,
                            !.url = At(t.history, t.history_index - 1),
                            !.is_loading = TRUE],
          ret |-> TRUE]
    ELSE [tab |-> t, ret |-> FALSE]

\* go_forward that jumps to the newest entry
go_forward_to_end(t) ==
    IF can_go_forward(t)
    THEN [tab |-> [t EXCEPT !.history_index = Len(t.history) - 1,
                            !.url = At(t.history, Len(t.history) - 1),
                            !.is_loading = TRUE],
          ret |-> TRUE]
    ELSE [tab |-> t, ret |-> FALSE]

\* go_forward that moves the cursor without marking the tab loading
go_forward_idle(t) ==
    IF can_go_forward(t)
    THEN [tab |-> [t EXCEPT !.history_index = t.history_index + 1,
                            !.url = At(t.history, t.history_index + 1)],
          ret |-> TRUE]
    ELSE [tab |-> t, ret |-> FALSE]

go_forward(t) ==
    IF can_go_forward(t)
    THEN [tab |-> [t EXCEPT !.history_index = t.history_index + 1,
                            !.url = At(t.history, t.history_index + 1),
                            !.is_loading = TRUE],
          ret |-> TRUE]
    ELSE [tab |-> t, ret |-> FALSE]

\* reload that works as the stop/reload toggle of the toolbar button
reload_toggle(t) == [t EXCEPT !.is_loading = ~t.is_loading]

\* reload implemented as a navigation to the current url
reload_as_navigate(t) ==
    [t EXCEPT !.history = Append(Truncate(t.history, t.history_index + 1), t.url),
              !.history_index = t.history_index + 1,
              !.is_loading = TRUE]

reload(t) == [t EXCEPT !.is_loading = TRUE]

set_title(t, title) == [t EXCEPT !.title = title]

finish_loading(t) == [t EXCEPT !.is_loading = FALSE]

\* ---------------------------------------------------------------- TabManager
\* a manager value is the pair of its two fields
Mgr(ts, a) == [tabs |-> ts, active_tab_index |-> a]

TabManagerNew(id) == Mgr(<<TabNew(id, HomeUrl)>>, 0)

tab_count(m) == Len(m.tabs)

\* the debug_assert of active_tab() / active_tab_mut()
ActiveInBounds(m) == m.active_tab_index < Len(m.tabs)

active_tab(m) == At(m.tabs, m.active_tab_index)

\* new_tab that opens the tab in the background
new_tab_background(m, id, url) ==
    Mgr(Append(m.tabs, TabNew(id, url)), m.active_tab_index)

\* new_tab that sets the active index to the new length
new_tab_off_by_one(m, id, url) ==
    LET ts == Append(m.tabs, TabNew(id, url))
    IN Mgr(ts, Len(ts))

\* new_tab that derives the id of the tab from its position
new_tab_position_id(m, id, url) ==
    LET ts == Append(m.tabs, TabNew(Len(m.tabs) + 1, url))
    IN Mgr(ts, Len(ts) - 1)

\* new_tab that puts the new tab first
new_tab_front(m, id, url) ==
    Mgr(<<TabNew(id, url)>> \o m.tabs, 0)

new_tab(m, id, url) ==
    LET ts == Append(m.tabs, TabNew(id, url))
    IN Mgr(ts, Len(ts) - 1)

\* close_tab without the clamp of an index left beyond the new length
close_tab_no_clamp(m, index) ==
    IF Len(m.tabs) <= 1
    THEN [mgr |-> m, ret |-> FALSE]
    ELSE IF index < Len(m.tabs)
         THEN LET ts == VecRemove(m.tabs, index)
                  a == m.active_tab_index
                  a2 == IF index <= a /\ a > 0 /\ a < Len(ts) THEN a - 1 ELSE a
              IN [mgr |-> Mgr(ts, a2), ret |-> TRUE]
         ELSE [mgr |-> m, ret |-> FALSE]

\* close_tab that decrements only for a tab strictly left of the active one
close_tab_strict_left(m, index) ==
    IF Len(m.tabs) <= 1
    THEN [mgr |-> m, ret |-> FALSE]
    ELSE IF index < Len(m.tabs)
         THEN LET ts == VecRemove(m.tabs, index)
                  a == m.active_tab_index
                  a2 == IF a >= Len(ts) THEN Len(ts) - 1
                        ELSE IF index < a /\ a > 0 THEN a - 1
                        ELSE a
              IN [mgr |-> Mgr(ts, a2), ret |-> TRUE]
         ELSE [mgr |-> m, ret |-> FALSE]

\* close_tab that only clamps and never follows the active tab to the left
close_tab_no_decrement(m, index) ==
    IF Len(m.tabs) <= 1
    THEN [mgr |-> m, ret |-> FALSE]
    ELSE IF index < Len(m.tabs)
         THEN LET ts == VecRemove(m.tabs, index)
                  a == m.active_tab_index
                  a2 == IF a >= Len(ts) THEN Len(ts) - 1 ELSE a
              IN [mgr |-> Mgr(ts, a2), ret |-> TRUE]
         ELSE [mgr |-> m, ret |-> FALSE]

\* close_tab whose bounds test admits index = len and then drops the last tab
close_tab_index_le(m, index) ==
    IF Len(m.tabs) <= 1
    THEN [mgr |-> m, ret |-> FALSE]
    ELSE IF index <= Len(m.tabs)
         THEN LET ts == VecRemove(m.tabs, IF index < Len(m.tabs) THEN index
                                          ELSE Len(m.tabs) - 1)
                  a == m.active_tab_index
                  a2 == IF a >= Len(ts) THEN Len(ts) - 1
                        ELSE IF index <= a /\ a > 0 THEN a - 1
                        ELSE a
              IN [mgr |-> Mgr(ts, a2), ret |-> TRUE]
         ELSE [mgr |-> m, ret |-> FALSE]

\* close_tab that activates the first tab when the active tab is closed
close_tab_active_to_first(m, index) ==
    IF Len(m.tabs) <= 1
    THEN [mgr |-> m, ret |-> FALSE]
    ELSE IF index < Len(m.tabs)
         THEN LET ts == VecRemove(m.tabs, index)
                  a == m.active_tab_index
                  a2 == IF index = a THEN 0
                        ELSE IF a >= Len(ts) THEN Len(ts) - 1
                        ELSE IF index <= a /\ a > 0 THEN a - 1
                        ELSE a
              IN [mgr |-> Mgr(ts, a2), ret |-> TRUE]
         ELSE [mgr |-> m, ret |-> FALSE]

\* close_tab that fills the hole with the last tab (Vec::swap_remove)
close_tab_swap_remove(m, index) ==
    IF Len(m.tabs) <= 1
    THEN [mgr |-> m, ret |-> FALSE]
    ELSE IF index < Len(m.tabs)
         THEN LET n == Len(m.tabs)
                  ts == [k \in 1 .. (n - 1) |->
                            IF k = index + 1 THEN m.tabs[n] ELSE m.tabs[k]]
                  a == m.active_tab_index
                  a2 == IF a >= Len(ts) THEN Len(ts) - 1
                        ELSE IF index <= a /\ a > 0 THEN a - 1
                        ELSE a
              IN [mgr |-> Mgr(ts, a2), ret |-> TRUE]
         ELSE [mgr |-> m, ret |-> FALSE]

close_tab(m, index) ==
    IF Len(m.tabs) <= 1
    THEN [mgr |-> m, ret |-> FALSE]
    ELSE IF index < Len(m.tabs)
         THEN LET ts == VecRemove(m.tabs, index)
                  a == m.active_tab_index
                  a2 == IF a >= Len(ts) THEN Len(ts) - 1
                        ELSE IF index <= a /\ a > 0 THEN a - 1
                        ELSE a
              IN [mgr |-> Mgr(ts, a2), ret |-> TRUE]
         ELSE [mgr |-> m, ret |-> FALSE]

\* the branches with the decrement test placed before the clamp test
close_tab_branch_reordered(m, index) ==
    IF Len(m.tabs) <= 1 \/ ~(index < Len(m.tabs))
    THEN "none"
    ELSE LET n2 == Len(VecRemove(m.tabs, index))
             a == m.active_tab_index
         IN IF index <= a /\ a > 0 THEN "decrement"
            ELSE IF a >= n2 THEN "clamp"
            ELSE "keep"

\* the branch of the index adjustment a close_tab call takes
close_tab_branch(m, index) ==
    IF Len(m.tabs) <= 1 \/ ~(index < Len(m.tabs))
    THEN "none"
    ELSE LET n2 == Len(VecRemove(m.tabs, index))
             a == m.active_tab_index
         IN IF a >= n2 THEN "clamp"
            ELSE IF index <= a /\ a > 0 THEN "decrement"
            ELSE "keep"

switch_to_tab_index_le(m, index) ==
    IF index <= Len(m.tabs)
    THEN [mgr |-> Mgr(m.tabs, index), ret |-> TRUE]
    ELSE [mgr |-> m, ret |-> FALSE]

switch_to_tab(m, index) ==
    IF index < Len(m.tabs)
    THEN [mgr |-> Mgr(m.tabs, index), ret |-> TRUE]
    ELSE [mgr |-> m, ret |-> FALSE]

\* ---------------------------------------------------------------- faults
\* Where a call would fault: an unsigned subtraction below zero (a panic in a
\* debug build, a wrapped value in a release build) or an index outside a Vec.

\* history.len() - 1 in navigate_to; the second one follows a push
navigate_to_faults(t) == Len(t.history) < 1

\* history.len() - 1 in can_go_forward
can_go_forward_faults(t) == Len(t.history) < 1

\* history_index -= 1 and history[history_index] in go_back
go_back_faults(t) ==
    can_go_back(t) /\ (t.history_index < 1 \/ t.history_index - 1 >= Len(t.history))

\* history[history_index] in go_forward, after can_go_forward
go_forward_faults(t) ==
    \/ can_go_forward_faults(t)
    \/ can_go_forward(t) /\ t.history_index + 1 >= Len(t.history)

\* tabs[active_tab_index] in active_tab / active_tab_mut
active_tab_faults(m) == ~(m.active_tab_index < Len(m.tabs))

\* tabs.len() - 1 after the push in new_tab
new_tab_faults(m) == Len(m.tabs) + 1 < 1

\* tabs.remove(index), tabs.len() - 1 and active_tab_index -= 1 in close_tab
close_tab_faults(m, index) ==
    /\ Len(m.tabs) > 1
    /\ index < Len(m.tabs)
    /\ LET n2 == Len(m.tabs) - 1
           a == m.active_tab_index
       IN \/ a >= n2 /\ n2 < 1
          \/ a < n2 /\ index <= a /\ a > 0 /\ a < 1

\* ---------------------------------------------------------------- state machine
\* the manager held in the state variables
Cur == Mgr(tabs, active_tab_index)

\* record of the call just made: operation, argument, boolean result
Call(op, arg, ret) == [op |-> op, arg |-> arg, ret |-> ret]

NoArg == "-"

\* Option<T>: None is the empty sequence, Some(x) the sequence of x alone
None == <<>>
Some(x) == <<x>>

\* TabManager::new()
TabsInit ==
    /\ tabs = TabManagerNew(1).tabs
    /\ active_tab_index = TabManagerNew(1).active_tab_index
    /\ next_id = 2
    /\ last = Call("new", NoArg, TRUE)
    /\ pre = TabManagerNew(1)
    /\ steps = 0
    /\ fault = FALSE

\* the collaborators as constructed, for the specifications that leave them alone
AppUnused ==
    /\ url_input = HomeUrl
    /\ tab_to_close = None
    /\ settings = [homepage |-> HomeUrl, search_engine |-> "SearchEngine::DuckDuckGo",
                   selected_panel |-> "SettingsPanel::General"]
    /\ frame = [pc |-> "unused"]

UrlUnused == url_io = [stage |-> "unused"]

ConvUnused == conv = [stage |-> "unused"]

PwdUnused ==
    /\ pwd = [stage |-> "unused"]
    /\ pwd_log = [stage |-> "unused"]

VpnUnused ==
    /\ vpn = [stage |-> "unused"]
    /\ vpn_log = [stage |-> "unused"]

Init ==
    /\ TabsInit
    /\ AppUnused
    /\ UrlUnused
    /\ ConvUnused
    /\ PwdUnused
    /\ VpnUnused

\* one more call made on the manager held in the state
Called(call) ==
    /\ steps < MaxSteps
    /\ steps' = steps + 1
    /\ last' = call
    /\ pre' = Cur
    /\ UNCHANGED <<appVars, url_io, conv, pwdVars, vpnVars>>

\* store manager m as the new state after a call
Step(m, call) ==
    /\ tabs' = m.tabs
    /\ active_tab_index' = m.active_tab_index
    /\ Called(call)
    /\ UNCHANGED <<next_id, fault>>

\* active_tab_mut().f(): replace the active tab by t2; the bounds assertion
\* fails when the index is invalid
OnActive(t2, call) ==
    IF ActiveInBounds(Cur)
    THEN Step(Mgr([tabs EXCEPT ![active_tab_index + 1] = t2], active_tab_index), call)
    ELSE /\ fault' = TRUE
         /\ Called(call)
         /\ UNCHANGED <<tabs, active_tab_index, next_id>>

\* the active tab when the index is valid, else any tab value (never used)
ActiveOrFirst == IF ActiveInBounds(Cur) THEN active_tab(Cur) ELSE TabNew(0, HomeUrl)

NavigateTo ==
    /\ ~fault
    /\ \E u \in Urls :
         OnActive(navigate_to(ActiveOrFirst, u), Call("navigate_to", u, TRUE))

GoBack ==
    /\ ~fault
    /\ OnActive(go_back(ActiveOrFirst).tab, Call("go_back", NoArg, go_back(ActiveOrFirst).ret))

GoForward ==
    /\ ~fault
    /\ OnActive(go_forward(ActiveOrFirst).tab,
                Call("go_forward", NoArg, go_forward(ActiveOrFirst).ret))

Reload ==
    /\ ~fault
    /\ OnActive(reload(ActiveOrFirst), Call("reload", NoArg, TRUE))

SetTitle ==
    /\ ~fault
    /\ \E s \in Titles :
         OnActive(set_title(ActiveOrFirst, s), Call("set_title", s, TRUE))

FinishLoading ==
    /\ ~fault
    /\ OnActive(finish_loading(ActiveOrFirst), Call("finish_loading", NoArg, TRUE))

NewTab ==
    /\ ~fault
    /\ Len(tabs) < MaxTabs
    /\ \E u \in Urls :
         /\ tabs' = new_tab(Cur, next_id, u).tabs
         /\ active_tab_index' = new_tab(Cur, next_id, u).active_tab_index
         /\ next_id' = next_id + 1
         /\ Called(Call("new_tab", u, TRUE))
         /\ UNCHANGED fault

CloseTab ==
    /\ ~fault
    /\ \E i \in Indices :
         Step(close_tab(Cur, i).mgr, Call("close_tab", i, close_tab(Cur, i).ret))

SwitchToTab ==
    /\ ~fault
    /\ \E i \in Indices :
         Step(switch_to_tab(Cur, i).mgr, Call("switch_to_tab", i, switch_to_tab(Cur, i).ret))

Next ==
    \/ NavigateTo
    \/ GoBack
    \/ GoForward
    \/ Reload
    \/ SetTitle
    \/ FinishLoading
    \/ NewTab
    \/ CloseTab
    \/ SwitchToTab

Spec == Init /\ [][Next]_vars

\* ---------------------------------------------------------------- properties
\* the active tab before and after the call just made
PreTab == active_tab(pre)
CurTab == active_tab(Cur)

\* C1: in every reachable state the tab list is non-empty, the active index is
\* a valid position of it, and the bounds assertion of active_tab() has not failed
C1_ActiveIndexValid ==
    /\ Len(tabs) >= 1
    /\ 0 <= active_tab_index
    /\ active_tab_index < Len(tabs)
    /\ ~fault

\* the last tab was active and has just been closed
C1_Witness ==
    /\ last.op = "close_tab" /\ last.ret
    /\ Len(pre.tabs) = 3
    /\ pre.active_tab_index = 2
    /\ last.arg = 2

\* C2: every tab has a non-empty history, a cursor inside it, and its url is the
\* history entry under the cursor
C2_HistoryCursor ==
    \A k \in 1 .. Len(tabs) :
        /\ Len(tabs[k].history) >= 1
        /\ 0 <= tabs[k].history_index
        /\ tabs[k].history_index < Len(tabs[k].history)
        /\ At(tabs[k].history, tabs[k].history_index) = tabs[k].url

\* a go_back has moved the cursor to an entry that differs from the newest one
C2_Witness ==
    /\ last.op = "go_back" /\ last.ret
    /\ Len(CurTab.history) = 3
    /\ CurTab.history_index = 1
    /\ CurTab.url # At(CurTab.history, 2)

\* C3: a successful close_tab(index) removes exactly the tab at index, keeps the
\* order of the others, and sets the active index to n-2 if a >= n-1, else to
\* a-1 if index <= a and a > 0, else to a (n, a: old length and old active index)
C3_CloseTabRule ==
    (last.op = "close_tab" /\ last.ret) =>
        LET n == Len(pre.tabs)
            a == pre.active_tab_index
            i == last.arg
        IN /\ Len(tabs) = n - 1
           /\ \A k \in 1 .. (n - 1) :
                 tabs[k] = IF k <= i THEN pre.tabs[k] ELSE pre.tabs[k + 1]
           /\ active_tab_index = IF a >= n - 1 THEN n - 2
                                 ELSE IF i <= a /\ a > 0 THEN a - 1
                                 ELSE a

\* the middle tab of three is active and is the one closed
C3_Witness ==
    /\ last.op = "close_tab" /\ last.ret
    /\ Len(pre.tabs) = 3
    /\ pre.active_tab_index = 1
    /\ last.arg = 1
    /\ active_tab_index = 0

\* C4: a successful close_tab of a tab other than the active one leaves the
\* same tab (by id) active
C4_ActiveTabKept ==
    (last.op = "close_tab" /\ last.ret /\ last.arg # pre.active_tab_index) =>
        CurTab.id = PreTab.id

\* a tab left of the active middle tab has been closed
C4_Witness ==
    /\ last.op = "close_tab" /\ last.ret
    /\ Len(pre.tabs) = 3
    /\ pre.active_tab_index = 1
    /\ last.arg = 0
    /\ active_tab_index = 0

\* C5: close_tab returns false exactly when there is at most one tab or the
\* index is out of range, and then the manager is unchanged
C5_CloseTabRefusal ==
    (last.op = "close_tab") =>
        /\ (~last.ret) <=> (Len(pre.tabs) <= 1 \/ last.arg >= Len(pre.tabs))
        /\ (~last.ret) => (tabs = pre.tabs /\ active_tab_index = pre.active_tab_index)
        /\ (Len(pre.tabs) = 1) => (~last.ret /\ Len(tabs) = 1)

\* close_tab(0) has been refused on a manager left with one tab, whose tab has
\* been navigated
C5_Witness ==
    /\ last.op = "close_tab" /\ ~last.ret
    /\ last.arg = 0
    /\ Len(pre.tabs) = 1
    /\ Len(tabs[1].history) >= 2

\* C6: navigate_to(u) leaves history = h[0..i] followed by u, the cursor on the
\* new last entry, url = u and nothing to go forward to, for every u
C6_NavigateTo ==
    (last.op = "navigate_to") =>
        LET h == PreTab.history
            i == PreTab.history_index
            u == last.arg
        IN /\ CurTab.history = SubSeq(h, 1, i + 1) \o <<u>>
           /\ CurTab.history_index = i + 1
           /\ CurTab.history_index = Len(CurTab.history) - 1
           /\ CurTab.url = u
           /\ ~can_go_forward(CurTab)

\* a navigation to the current url from the middle of a history of three
C6_Witness ==
    /\ last.op = "navigate_to"
    /\ Len(PreTab.history) = 3
    /\ PreTab.history_index = 1
    /\ last.arg = PreTab.url
    /\ Len(CurTab.history) = 3

\* C7: go_back at the first entry and go_forward at the last entry return false
\* and leave the tab (url, history, cursor, title, loading flag) unchanged, so the
\* state a repeated call starts from is the same state again
C7_FailedMoveNoChange ==
    /\ (last.op = "go_back" /\ PreTab.history_index = 0) =>
           (~last.ret /\ CurTab = PreTab /\ Cur = pre)
    /\ (last.op = "go_forward" /\ PreTab.history_index = Len(PreTab.history) - 1) =>
           (~last.ret /\ CurTab = PreTab /\ Cur = pre)

\* a refused go_back on an idle tab that has a history to go forward in
C7_Witness ==
    /\ last.op = "go_back" /\ ~last.ret
    /\ PreTab.history_index = 0
    /\ Len(PreTab.history) >= 2
    /\ ~PreTab.is_loading

\* C8: go_back and go_forward leave the history sequence identical; a
\* successful one moves the cursor by exactly one and sets url to the entry
\* under it
C8_MoveKeepsHistory ==
    /\ (last.op \in {"go_back", "go_forward"}) => CurTab.history = PreTab.history
    /\ (last.op = "go_back" /\ last.ret) =>
           /\ CurTab.history_index = PreTab.history_index - 1
           /\ CurTab.url = At(PreTab.history, PreTab.history_index - 1)
    /\ (last.op = "go_forward" /\ last.ret) =>
           /\ CurTab.history_index = PreTab.history_index + 1
           /\ CurTab.url = At(PreTab.history, PreTab.history_index + 1)

\* a go_forward from the first of three entries
C8_Witness ==
    /\ last.op = "go_forward" /\ last.ret
    /\ Len(PreTab.history) = 3
    /\ PreTab.history_index = 0

\* C9: go_back returns true iff can_go_back() held before the call (the cursor
\* was not on the first entry), and go_forward returns true iff can_go_forward()
\* held before it (the cursor was not on the last entry)
C9_ResultMatchesPredicate ==
    /\ (last.op = "go_back") =>
           /\ last.ret = can_go_back(PreTab)
           /\ last.ret = (PreTab.history_index > 0)
    /\ (last.op = "go_forward") =>
           /\ last.ret = can_go_forward(PreTab)
           /\ last.ret = (PreTab.history_index + 1 < Len(PreTab.history))

\* a go_back from the second entry, where can_go_back() holds
C9_Witness ==
    /\ last.op = "go_back" /\ last.ret
    /\ PreTab.history_index = 1
    /\ can_go_back(PreTab)
    /\ can_go_forward(CurTab)

\* C10: new_tab(u) appends one tab after the existing ones, makes it active,
\* and the new tab has url u, history [u] and cursor 0
C10_NewTab ==
    (last.op = "new_tab") =>
        /\ Len(tabs) = Len(pre.tabs) + 1
        /\ SubSeq(tabs, 1, Len(pre.tabs)) = pre.tabs
        /\ active_tab_index = Len(tabs) - 1
        /\ CurTab.url = last.arg
        /\ CurTab.history = <<last.arg>>
        /\ CurTab.history_index = 0

\* a new tab opened while the first of two tabs was active
C10_Witness ==
    /\ last.op = "new_tab"
    /\ Len(pre.tabs) = 2
    /\ pre.active_tab_index = 0
    /\ last.arg # HomeUrl

\* C11: switch_to_tab(index) returns true and makes index the active index when
\* index < tab_count; otherwise it returns false and changes nothing; the tab
\* list is the same in both cases
C11_SwitchToTab ==
    (last.op = "switch_to_tab") =>
        /\ last.ret = (last.arg < Len(pre.tabs))
        /\ last.ret => active_tab_index = last.arg
        /\ (~last.ret) => active_tab_index = pre.active_tab_index
        /\ tabs = pre.tabs

\* switch_to_tab(len) has been refused on a manager of two tabs
C11_Witness ==
    /\ last.op = "switch_to_tab" /\ ~last.ret
    /\ Len(pre.tabs) = 2
    /\ last.arg = 2
    /\ pre.active_tab_index = 0

\* C12: in every reachable state no call can fault: no unsigned subtraction
\* goes below zero and no index into history or tabs is out of bounds, for any
\* tab and any index argument; the bounds assertion has not failed
C12_NoFault ==
    /\ ~fault
    /\ ~active_tab_faults(Cur)
    /\ ~new_tab_faults(Cur)
    /\ \A i \in Indices : ~close_tab_faults(Cur, i)
    /\ \A k \in 1 .. Len(tabs) :
          /\ ~navigate_to_faults(tabs[k])
          /\ ~can_go_forward_faults(tabs[k])
          /\ ~go_back_faults(tabs[k])
          /\ ~go_forward_faults(tabs[k])

\* the second of two tabs was active and closed: tabs.len() - 1 is computed
\* at its smallest value
C12_Witness ==
    /\ last.op = "close_tab" /\ last.ret
    /\ Len(pre.tabs) = 2
    /\ pre.active_tab_index = 1
    /\ last.arg = 1
    /\ active_tab_index = 0

\* C13: a tab that was loading before a call and is idle after it was the
\* active tab of a finish_loading call
C13_OnlyFinishClears ==
    \A k \in 1 .. Len(tabs) : \A j \in 1 .. Len(pre.tabs) :
        (tabs[k].id = pre.tabs[j].id /\ pre.tabs[j].is_loading /\ ~tabs[k].is_loading)
            => (last.op = "finish_loading" /\ j = pre.active_tab_index + 1)

\* a reload of a tab that was already loading
C13_Witness ==
    /\ last.op = "reload"
    /\ PreTab.is_loading
    /\ CurTab.is_loading
    /\ Len(CurTab.history) >= 2

\* C14: a tab is idle when created; navigate_to, reload and every successful
\* go_back / go_forward leave it loading; finish_loading leaves it idle
C14_LoadingMachine ==
    /\ (last.op \in {"new", "new_tab"}) => ~CurTab.is_loading
    /\ (last.op \in {"navigate_to", "reload"}) => CurTab.is_loading
    /\ (last.op \in {"go_back", "go_forward"} /\ last.ret) => CurTab.is_loading
    /\ (last.op = "finish_loading") => ~CurTab.is_loading

\* a go_forward on a tab that was idle
C14_Witness ==
    /\ last.op = "go_forward" /\ last.ret
    /\ ~PreTab.is_loading
    /\ CurTab.is_loading

\* C15: reload sets is_loading and leaves url, history, cursor, title and id
\* unchanged; finish_loading and set_title leave url, history and cursor unchanged
C15_ReloadFrame ==
    /\ (last.op = "reload") =>
           /\ CurTab.is_loading
           /\ CurTab = [PreTab EXCEPT !.is_loading = TRUE]
    /\ (last.op \in {"finish_loading", "set_title"}) =>
           /\ CurTab.url = PreTab.url
           /\ CurTab.history = PreTab.history
           /\ CurTab.history_index = PreTab.history_index

\* a reload of an idle, titled tab whose cursor is not on the newest entry
C15_Witness ==
    /\ last.op = "reload"
    /\ ~PreTab.is_loading
    /\ PreTab.title # NewTabTitle
    /\ PreTab.history_index < Len(PreTab.history) - 1

\* C16: after a successful go_back an immediate go_forward returns true and
\* restores url, history and cursor; after a successful go_forward an immediate
\* go_back does the same
C16_BackForwardInverse ==
    /\ (last.op = "go_back" /\ last.ret) =>
           /\ go_forward(CurTab).ret
           /\ go_forward(CurTab).tab.url = PreTab.url
           /\ go_forward(CurTab).tab.history = PreTab.history
           /\ go_forward(CurTab).tab.history_index = PreTab.history_index
    /\ (last.op = "go_forward" /\ last.ret) =>
           /\ go_back(CurTab).ret
           /\ go_back(CurTab).tab.url = PreTab.url
           /\ go_back(CurTab).tab.history = PreTab.history
           /\ go_back(CurTab).tab.history_index = PreTab.history_index

\* a go_back from the middle of three entries to the first, to another url
C16_Witness ==
    /\ last.op = "go_back" /\ last.ret
    /\ Len(PreTab.history) = 3
    /\ PreTab.history_index = 1
    /\ CurTab.url # PreTab.url

\* the ids of the tabs of a list, in order
Ids(ts) == [k \in 1 .. Len(ts) |-> ts[k].id]

\* C17: no call changes the id of a tab (the ids in the list are those before
\* the call, less the closed tab or plus the new one), and the tabs of the
\* list have pairwise distinct ids
C17_IdsStableDistinct ==
    /\ \A j \in 1 .. Len(tabs) : \A k \in 1 .. Len(tabs) :
           (tabs[j].id = tabs[k].id) => j = k
    /\ (last.op = "new_tab") =>
           /\ SubSeq(Ids(tabs), 1, Len(pre.tabs)) = Ids(pre.tabs)
           /\ \A j \in 1 .. Len(pre.tabs) : pre.tabs[j].id # tabs[Len(tabs)].id
    /\ (last.op = "close_tab" /\ last.ret) =>
           Ids(tabs) = SubSeq(Ids(pre.tabs), 1, last.arg)
                         \o SubSeq(Ids(pre.tabs), last.arg + 2, Len(pre.tabs))
    /\ (last.op \notin {"new_tab", "close_tab"} \/ ~last.ret) =>
           Ids(tabs) = Ids(pre.tabs)

\* a third tab opened after an earlier tab had been closed
C17_Witness ==
    /\ last.op = "new_tab"
    /\ Len(tabs) = 3
    /\ next_id > 4

\* C18: TabManager::new() holds one tab and active index 0; a tab just created
\* for u has url u, history [u], cursor 0, is idle, carries the sentinel title
\* and can go neither back nor forward
C18_FreshTab ==
    /\ (last.op = "new") =>
           /\ Len(tabs) = 1
           /\ active_tab_index = 0
           /\ CurTab.url = HomeUrl
    /\ (last.op \in {"new", "new_tab"}) =>
           /\ CurTab.history = <<CurTab.url>>
           /\ CurTab.history_index = 0
           /\ ~CurTab.is_loading
           /\ CurTab.title = "New Tab"
           /\ ~can_go_back(CurTab)
           /\ ~can_go_forward(CurTab)
    /\ (last.op = "new_tab") => CurTab.url = last.arg

\* a tab created while the active tab was loading, titled and had a history
C18_Witness ==
    /\ last.op = "new_tab"
    /\ PreTab.is_loading
    /\ PreTab.title # NewTabTitle
    /\ Len(PreTab.history) >= 2
    /\ last.arg # PreTab.url

\* C19 as stated: the clamp branch of a successful close_tab is taken only
\* when the removed tab was the last tab and was also the active tab
C19_ClampOnlyLastActive ==
    (last.op = "close_tab" /\ last.ret /\ close_tab_branch(pre, last.arg) = "clamp") =>
        /\ last.arg = Len(pre.tabs) - 1
        /\ last.arg = pre.active_tab_index

\* C19 amended: the clamp branch of a successful close_tab is taken exactly
\* when the active tab was the last tab, whichever tab is removed
C19_ClampIffActiveLast ==
    (last.op = "close_tab" /\ last.ret) =>
        /\ (close_tab_branch(pre, last.arg) = "clamp")
               <=> (pre.active_tab_index = Len(pre.tabs) - 1)
        /\ (close_tab_branch(pre, last.arg) = "clamp")
               => active_tab_index = Len(tabs) - 1

\* the first of three tabs was closed while the last one was active
C19_Witness ==
    /\ last.op = "close_tab" /\ last.ret
    /\ Len(pre.tabs) = 3
    /\ pre.active_tab_index = 2
    /\ last.arg = 0
    /\ close_tab_branch(pre, last.arg) = "clamp"

\* C20: when close_tab removes the active tab at position a, the tab that
\* becomes active is the one formerly at a-1 if a > 0, and the one formerly at
\* position 1 if a = 0
C20_NeighbourBecomesActive ==
    (last.op = "close_tab" /\ last.ret /\ last.arg = pre.active_tab_index) =>
        /\ (pre.active_tab_index > 0) =>
               CurTab.id = At(pre.tabs, pre.active_tab_index - 1).id
        /\ (pre.active_tab_index = 0) =>
               CurTab.id = At(pre.tabs, 1).id

\* the first of three tabs was active and closed
C20_Witness ==
    /\ last.op = "close_tab" /\ last.ret
    /\ Len(pre.tabs) = 3
    /\ pre.active_tab_index = 0
    /\ last.arg = 0

\* every tab of the list that was in the list before the call is as it was
RemainingTabsUnchanged ==
    \A k \in 1 .. Len(tabs) : \A j \in 1 .. Len(pre.tabs) :
        (tabs[k].id = pre.tabs[j].id) => tabs[k] = pre.tabs[j]

\* the tabs that were in the list before the call are in the order they had
RemainingTabsInOrder ==
    \A k1 \in 1 .. Len(tabs) : \A k2 \in 1 .. Len(tabs) :
        \A j1 \in 1 .. Len(pre.tabs) : \A j2 \in 1 .. Len(pre.tabs) :
            (/\ tabs[k1].id = pre.tabs[j1].id
             /\ tabs[k2].id = pre.tabs[j2].id
             /\ k1 < k2) => j1 < j2

\* C24: new_tab, switch_to_tab and close_tab leave url, title, history,
\* history_index and is_loading of every remaining tab as they were and keep
\* the remaining tabs in order; navigate_to, go_back, go_forward, reload and
\* finish_loading on the active tab leave active_tab_index, tab_count and
\* every other tab unchanged
C24_FrameEffects ==
    /\ (last.op \in {"new_tab", "switch_to_tab", "close_tab"}) =>
           /\ RemainingTabsUnchanged
           /\ RemainingTabsInOrder
    /\ (last.op \in {"navigate_to", "go_back", "go_forward", "reload",
                     "finish_loading"}) =>
           /\ active_tab_index = pre.active_tab_index
           /\ Len(tabs) = Len(pre.tabs)
           /\ \A k \in 1 .. Len(tabs) :
                  (k # active_tab_index + 1) => tabs[k] = pre.tabs[k]

\* the first of three tabs, each with a different past, has been closed
C24_Witness ==
    /\ last.op = "close_tab"
    /\ last.arg = 0
    /\ last.ret
    /\ Len(pre.tabs) = 3
    /\ Len(tabs) = 2
    /\ Len(tabs[1].history) = 2
    /\ tabs[2].is_loading
    /\ tabs[1] # tabs[2]


(***************************************************************************)
(* Address-bar normalisation: BrowserApp::process_url_input                *)
(* (src/ui/src/window.rs) and SearchEngine::search_url                     *)
(* (src/ui/src/settings.rs). Rust strings are TLA+ strings; the character  *)
(* at position i of s is SubSeq(s, i, i). The characters are those of      *)
(* ASCII and of Latin-1 that a string can be written with (CodePointOf).   *)
(***************************************************************************)

\* ---- bounds ----
MaxInputLen == 4

CharAt(s, i) == SubSeq(s, i, i)

\* char::is_whitespace
is_whitespace(c) == c \in {" ", "\t", "\n", "\f", "\r"}

\* u8::is_ascii_alphanumeric
is_ascii_alphanumeric(c) ==
    c \in {"a", "b", "c", "d", "e", "f", "g", "h", "i", "j", "k", "l", "m",
           "n", "o", "p", "q", "r", "s", "t", "u", "v", "w", "x", "y", "z",
           "A", "B", "C", "D", "E", "F", "G", "H", "I", "J", "K", "L", "M",
           "N", "O", "P", "Q", "R", "S", "T", "U", "V", "W", "X", "Y", "Z",
           "0", "1", "2", "3", "4", "5", "6", "7", "8", "9"}

\* the letters and the numeric characters of Latin-1 (U+00A1 to U+00FF)
Latin1Alphanumeric ==
    LET chars == "ª²³µ¹º¼½¾ÀÁÂÃÄÅÆÇÈÉÊËÌÍÎÏÐÑÒÓÔÕÖØÙÚÛÜÝÞßàáâãäåæçèéêëìíîïðñòóôõöøùúûüýþÿ"
    IN {CharAt(chars, i) : i \in 1 .. Len(chars)}

\* char::is_alphanumeric: a letter or a numeric character of Unicode
is_alphanumeric(c) == is_ascii_alphanumeric(c) \/ c \in Latin1Alphanumeric

RECURSIVE trim_start(_)
trim_start(s) ==
    IF Len(s) > 0 /\ is_whitespace(CharAt(s, 1))
    THEN trim_start(Tail(s))
    ELSE s

RECURSIVE trim_end(_)
trim_end(s) ==
    IF Len(s) > 0 /\ is_whitespace(CharAt(s, Len(s)))
    THEN trim_end(SubSeq(s, 1, Len(s) - 1))
    ELSE s

\* str::trim
trim(s) == trim_end(trim_start(s))

\* str::starts_with
starts_with(s, prefix) ==
    /\ Len(s) >= Len(prefix)
    /\ SubSeq(s, 1, Len(prefix)) = prefix

\* str::contains(char)
contains(s, c) == \E i \in 1 .. Len(s) : CharAt(s, i) = c

\* str::split(char), collected: the pieces between the separators
RECURSIVE split(_, _)
split(s, c) ==
    IF ~contains(s, c)
    THEN <<s>>
    ELSE LET i == CHOOSE k \in 1 .. Len(s) :
                      /\ CharAt(s, k) = c
                      /\ \A j \in 1 .. (k - 1) : CharAt(s, j) # c
         IN <<SubSeq(s, 1, i - 1)>> \o split(SubSeq(s, i + 1, Len(s)), c)

\* the byte of each ASCII character that a string of the model can carry:
\* 32 to 95 and 97 to 126 in this order, and tab, line feed, form feed and
\* carriage return
ByteOf ==
    LET from_space == " !\"#$%&'()*+,-./0123456789:;<=>?@ABCDEFGHIJKLMNOPQRSTUVWXYZ[\\]^_"
        from_a == "abcdefghijklmnopqrstuvwxyz{|}~"
        control == {"\t", "\n", "\f", "\r"}
    IN [c \in {CharAt(from_space, i) : i \in 1 .. Len(from_space)}
              \cup {CharAt(from_a, i) : i \in 1 .. Len(from_a)} \cup control |->
           IF c = "\t" THEN 9
           ELSE IF c = "\n" THEN 10
           ELSE IF c = "\f" THEN 12
           ELSE IF c = "\r" THEN 13
           ELSE IF \E i \in 1 .. Len(from_space) : CharAt(from_space, i) = c
                THEN 31 + (CHOOSE i \in 1 .. Len(from_space) : CharAt(from_space, i) = c)
                ELSE 96 + (CHOOSE i \in 1 .. Len(from_a) : CharAt(from_a, i) = c)]

\* the code point of each character: the ASCII ones, and U+00A1 to U+00FF in
\* this order
CodePointOf ==
    LET latin1 == "¡¢£¤¥¦§¨©ª«¬­®¯°±²³´µ¶·¸¹º»¼½¾¿ÀÁÂÃÄÅÆÇÈÉÊËÌÍÎÏÐÑÒÓÔÕÖ×ØÙÚÛÜÝÞßàáâãäåæçèéêëìíîïðñòóôõö÷øùúûüýþÿ"
    IN [c \in (DOMAIN ByteOf) \cup {CharAt(latin1, i) : i \in 1 .. Len(latin1)} |->
           IF c \in DOMAIN ByteOf THEN ByteOf[c]
           ELSE 160 + (CHOOSE i \in 1 .. Len(latin1) : CharAt(latin1, i) = c)]

\* the character of each code point
CharOf ==
    [code \in {CodePointOf[c] : c \in DOMAIN CodePointOf} |->
        CHOOSE c \in DOMAIN CodePointOf : CodePointOf[c] = code]

\* str::chars, a char being its code point, and String::from_iter
chars(s) == [k \in 1 .. Len(s) |-> CodePointOf[CharAt(s, k)]]

RECURSIVE from_chars(_)
from_chars(cs) ==
    IF cs = <<>> THEN ""
    ELSE CharOf[Head(cs)] \o from_chars(Tail(cs))

\* the UTF-8 bytes of a character below U+0800
utf8(c) ==
    LET code == CodePointOf[c]
    IN IF code < 128 THEN <<code>>
       ELSE <<192 + (code \div 64), 128 + (code % 64)>>

\* str::len, the number of bytes
RECURSIVE len(_)
len(s) ==
    IF Len(s) = 0 THEN 0
    ELSE Len(utf8(CharAt(s, 1))) + len(Tail(s))

\* a byte as % and its two upper-case hex digits
percent_hex(byte) ==
    LET digits == "0123456789ABCDEF"
    IN "%" \o CharAt(digits, (byte \div 16) + 1) \o CharAt(digits, (byte % 16) + 1)

\* urlencoding::encode of one character: ASCII letters, digits and - _ . ~
\* are kept, every other byte of the character is written as % and its two
\* hex digits
encode_char(c) ==
    LET bytes == utf8(c)
    IN IF is_ascii_alphanumeric(c) \/ c \in {"-", "_", ".", "~"} THEN c
       ELSE IF Len(bytes) = 1 THEN percent_hex(bytes[1])
       ELSE percent_hex(bytes[1]) \o percent_hex(bytes[2])

\* urlencoding::encode
RECURSIVE encode(_)
encode(s) ==
    IF Len(s) = 0 THEN ""
    ELSE encode_char(CharAt(s, 1)) \o encode(Tail(s))

SearchEngines ==
    {"SearchEngine::DuckDuckGo", "SearchEngine::Google", "SearchEngine::Bing",
     "SearchEngine::Brave"}

\* SearchEngine::search_url
search_url(engine, query) ==
    LET encoded == encode(query)
    IN IF engine = "SearchEngine::DuckDuckGo" THEN "https://duckduckgo.com/?q=" \o encoded
       ELSE IF engine = "SearchEngine::Google" THEN "https://www.google.com/search?q=" \o encoded
       ELSE IF engine = "SearchEngine::Bing" THEN "https://www.bing.com/search?q=" \o encoded
       ELSE "https://search.brave.com/search?q=" \o encoded

\* variant: the domain test without the test for a space
process_url_input_spaces_allowed(input, engine) ==
    LET trimmed == trim(input)
        parts == split(trimmed, ".")
        last_part == parts[Len(parts)]
    IN IF starts_with(trimmed, "about:") THEN trimmed
       ELSE IF starts_with(trimmed, "http://") \/ starts_with(trimmed, "https://")
            THEN trimmed
       ELSE IF /\ contains(trimmed, ".")
               /\ Len(parts) >= 2
               /\ len(last_part) >= 2
               /\ \A i \in 1 .. Len(last_part) : is_alphanumeric(CharAt(last_part, i))
            THEN "https://" \o trimmed
       ELSE search_url(engine, trimmed)

\* BrowserApp::process_url_input, engine being settings.general.search_engine
process_url_input(input, engine) ==
    LET trimmed == trim(input)
        parts == split(trimmed, ".")
        last_part == parts[Len(parts)]
    IN IF starts_with(trimmed, "about:") THEN trimmed
       ELSE IF starts_with(trimmed, "http://") \/ starts_with(trimmed, "https://")
            THEN trimmed
       ELSE IF /\ contains(trimmed, ".")
               /\ ~contains(trimmed, " ")
               /\ Len(parts) >= 2
               /\ len(last_part) >= 2
               /\ \A i \in 1 .. Len(last_part) : is_alphanumeric(CharAt(last_part, i))
            THEN "https://" \o trimmed
       ELSE search_url(engine, trimmed)

\* ---- the address-bar texts tried ----
InputChars == {"a", ".", " ", "-", "\t", "é"}

RECURSIVE Texts(_)
Texts(n) ==
    IF n = 0 THEN {""}
    ELSE {""} \cup {c \o t : c \in InputChars, t \in Texts(n - 1)}

Prefixes == {"", "about:", "http://", "https://"}

Inputs == {lead \o (p \o t) : lead \in {"", " "}, p \in Prefixes, t \in Texts(MaxInputLen)}

\* url_io holds the typed text and the result as their chars
InitUrl ==
    /\ url_io \in {[stage |-> "typed", input |-> chars(i), engine |-> e] :
                      i \in Inputs, e \in SearchEngines}
    /\ TabsInit
    /\ AppUnused
    /\ ConvUnused
    /\ PwdUnused
    /\ VpnUnused

\* the address bar's Enter: let url = self.process_url_input(&self.url_input)
ProcessUrlInput ==
    /\ url_io.stage = "typed"
    /\ url_io' = [stage |-> "done", input |-> url_io.input,
                  engine |-> url_io.engine,
                  output |-> chars(process_url_input(from_chars(url_io.input),
                                                     url_io.engine))]
    /\ UNCHANGED <<tabVars, appVars, conv, pwdVars, vpnVars>>

NextUrl == ProcessUrlInput

SpecUrl == InitUrl /\ [][NextUrl]_vars

\* ---- C27 ----
UrlDone == url_io.stage = "done"

\* the text typed, trimmed, and the result
Trimmed == trim(from_chars(url_io.input))
Result == from_chars(url_io.output)

\* the text carries none of the prefixes about:, http://, https://
NoPrefix(t) ==
    /\ ~starts_with(t, "about:")
    /\ ~starts_with(t, "http://")
    /\ ~starts_with(t, "https://")

\* the text after the last dot of t (t itself when it has none)
RECURSIVE AfterLastDot(_)
AfterLastDot(t) ==
    IF Len(t) = 0 \/ CharAt(t, Len(t)) = "." THEN ""
    ELSE AfterLastDot(SubSeq(t, 1, Len(t) - 1)) \o CharAt(t, Len(t))

SearchUrlPrefix(engine) ==
    IF engine = "SearchEngine::DuckDuckGo" THEN "https://duckduckgo.com/?q="
    ELSE IF engine = "SearchEngine::Google" THEN "https://www.google.com/search?q="
    ELSE IF engine = "SearchEngine::Bing" THEN "https://www.bing.com/search?q="
    ELSE "https://search.brave.com/search?q="

IsSearchUrl(out, engine, t) == out = SearchUrlPrefix(engine) \o encode(t)

\* t looks like a domain: a dot, no space (U+0020), and after the last dot
\* only alphanumeric characters that make two or more bytes
LooksLikeDomain(t) ==
    /\ \E i \in 1 .. Len(t) : CharAt(t, i) = "."
    /\ \A i \in 1 .. Len(t) : CharAt(t, i) # " "
    /\ len(AfterLastDot(t)) >= 2
    /\ \A i \in 1 .. Len(AfterLastDot(t)) : is_alphanumeric(CharAt(AfterLastDot(t), i))

\* C27 as stated: for text without an about:, http:// or https:// prefix,
\* whenever the trimmed text contains a dot the result is https:// followed
\* by the trimmed text, and every other text becomes the search engine's
\* query URL.
C27_AnyDotIsDomain ==
    UrlDone /\ NoPrefix(Trimmed) =>
        IF contains(Trimmed, ".")
        THEN Result = "https://" \o Trimmed
        ELSE IsSearchUrl(Result, url_io.engine, Trimmed)

\* C27, amended: for text without an about:, http:// or https:// prefix,
\* the result is https:// followed by the trimmed text exactly when the
\* trimmed text contains a dot, contains no space character (U+0020) and
\* its part after the last dot consists of alphanumeric characters only and
\* is two or more bytes long in UTF-8 (two ASCII characters, or one letter
\* outside ASCII); every other text becomes the configured search engine's
\* query URL, percent-encoded.
C27_DomainOrSearch ==
    UrlDone /\ NoPrefix(Trimmed) =>
        IF LooksLikeDomain(Trimmed)
        THEN Result = "https://" \o Trimmed
        ELSE IsSearchUrl(Result, url_io.engine, Trimmed)

\* a text whose ending is one letter of two bytes, so that only its space
\* keeps it from being a domain, has been turned into a search
C27_Witness ==
    /\ UrlDone
    /\ NoPrefix(Trimmed)
    /\ contains(Trimmed, ".")
    /\ contains(Trimmed, " ")
    /\ Len(AfterLastDot(Trimmed)) = 1
    /\ len(AfterLastDot(Trimmed)) = 2
    /\ is_alphanumeric(AfterLastDot(Trimmed))
    /\ url_io.engine = "SearchEngine::Google"
    /\ IsSearchUrl(Result, url_io.engine, Trimmed)

(***************************************************************************)
(* BrowserApp (src/ui/src/window.rs): its fields and one pass of update(). *)
(* A pass runs the handlers in source order; frame.pc is the position of   *)
(* the handler that ran last in the current pass (0 between passes). A     *)
(* handler whose input did not occur is passed over. The code between the  *)
(* handlers that does not depend on input (the deferred close, the switch  *)
(* and new-tab handling after the tab bar) cannot be passed over while its *)
(* condition holds.                                                        *)
(***************************************************************************)

\* ---- bounds ----
MaxEvents == 5

\* SettingsPanel::default
PanelDefault == "SettingsPanel::General"

\* settings::SettingsPanel
SettingsPanels ==
    {"SettingsPanel::General", "SettingsPanel::Privacy", "SettingsPanel::Appearance",
     "SettingsPanel::Network", "SettingsPanel::Passwords", "SettingsPanel::Extensions",
     "SettingsPanel::Downloads", "SettingsPanel::Advanced"}

\* settings.general and settings.selected_panel as loaded by SettingsUI::load()
Homepages == {HomeUrl, "https://example.com"}
GeneralSettings ==
    {[homepage |-> h, search_engine |-> e, selected_panel |-> PanelDefault] :
        h \in Homepages, e \in {"SearchEngine::DuckDuckGo", "SearchEngine::Google"}}

\* texts typed into the address bar
TypedTexts == {"a.aa", "a a"}

\* sidebar::SidebarItem (those handled alike stand for each other)
SidebarItems == {"Search", "Settings", "Bookmarks"}

\* the BrowserApp as a value; next_id is the next Uuid
App ==
    [tab_manager |-> Cur, next_id |-> next_id, url_input |-> url_input,
     tab_to_close |-> tab_to_close, settings |-> settings]

\* BrowserApp::new(), the settings being the loaded ones
BrowserAppNew(loaded) ==
    [tab_manager |-> TabManagerNew(1), next_id |-> 2,
     url_input |-> active_tab(TabManagerNew(1)).url,
     tab_to_close |-> None, settings |-> loaded]

\* *self.tab_manager.active_tab_mut() = t2
with_active_tab(app, t2) ==
    [app EXCEPT !.tab_manager.tabs[app.tab_manager.active_tab_index + 1] = t2]

\* self.url_input = self.tab_manager.active_tab().url.clone()
sync_url_input(app) ==
    [app EXCEPT !.url_input = active_tab(app.tab_manager).url]

\* self.tab_manager.new_tab("about:home"); self.url_input = "about:home"
open_home_tab(app) ==
    [app EXCEPT !.tab_manager = new_tab(app.tab_manager, app.next_id, "about:home"),
                !.next_id = app.next_id + 1,
                !.url_input = "about:home"]

\* navigate_to(url) on the active tab; self.url_input = url
navigate_active(app, url) ==
    [with_active_tab(app, navigate_to(active_tab(app.tab_manager), url))
        EXCEPT !.url_input = url]

\* Ctrl+T
on_ctrl_t(app) == open_home_tab(app)

\* Ctrl+W
on_ctrl_w(app) ==
    LET current_index == app.tab_manager.active_tab_index
    IN IF tab_count(app.tab_manager) > 1
       THEN [app EXCEPT !.tab_to_close = Some(current_index)]
       ELSE app

\* Ctrl+R or F5
on_ctrl_r(app) == with_active_tab(app, reload(active_tab(app.tab_manager)))

\* Alt+Left, and the back button (enabled when can_go_back)
on_back(app) ==
    IF can_go_back(active_tab(app.tab_manager))
    THEN sync_url_input(with_active_tab(app, go_back(active_tab(app.tab_manager)).tab))
    ELSE app

\* Alt+Right, and the forward button (enabled when can_go_forward)
on_forward(app) ==
    IF can_go_forward(active_tab(app.tab_manager))
    THEN sync_url_input(with_active_tab(app, go_forward(active_tab(app.tab_manager)).tab))
    ELSE app

\* Alt+Home, and the home button
on_home(app) == navigate_active(app, app.settings.homepage)

\* deferred close that leaves the address bar as it was
deferred_tab_close_no_sync(app) ==
    IF app.tab_to_close = None THEN app
    ELSE [app EXCEPT !.tab_manager = close_tab(app.tab_manager, app.tab_to_close[1]).mgr,
                     !.tab_to_close = None]

\* if let Some(index) = self.tab_to_close.take() { close_tab(index); ... }
deferred_tab_close(app) ==
    IF app.tab_to_close = None THEN app
    ELSE sync_url_input(
             [app EXCEPT !.tab_manager = close_tab(app.tab_manager, app.tab_to_close[1]).mgr,
                         !.tab_to_close = None])

\* close button that removes the tab at once
on_close_button_immediate(app, index) ==
    sync_url_input([app EXCEPT !.tab_manager = close_tab(app.tab_manager, index).mgr])

\* the close button of the tab at index, in the tab bar loop
on_close_button(app, index) == [app EXCEPT !.tab_to_close = Some(index)]

\* if let Some(index) = switch_to_tab { ... }
handle_tab_switch(app, index) ==
    sync_url_input([app EXCEPT !.tab_manager = switch_to_tab(app.tab_manager, index).mgr])

\* if new_tab_clicked { ... }
handle_new_tab(app) == open_home_tab(app)

\* if let Some(item) = sidebar_action { ... }
on_sidebar(app, item) ==
    IF item = "Settings" THEN navigate_active(app, "about:settings")
    ELSE IF item = "Search" THEN navigate_active(app, "about:home")
    ELSE app

\* the reload/stop button
on_reload_stop(app) ==
    IF active_tab(app.tab_manager).is_loading
    THEN with_active_tab(app, finish_loading(active_tab(app.tab_manager)))
    ELSE with_active_tab(app, reload(active_tab(app.tab_manager)))

\* Enter in the address bar
on_enter(app) ==
    navigate_active(app, process_url_input(app.url_input, app.settings.search_engine))

\* render_content shows the settings page
settings_page_shown(app) == active_tab(app.tab_manager).url = "about:settings"

\* render_settings_page: a click on the label of a panel
on_settings_panel(app, panel) ==
    IF settings_page_shown(app)
    THEN [app EXCEPT !.settings.selected_panel = panel]
    ELSE app

\* render_general_settings: the homepage text edit
on_homepage_edit(app, text) ==
    IF settings_page_shown(app) /\ app.settings.selected_panel = "SettingsPanel::General"
    THEN [app EXCEPT !.settings.homepage = text]
    ELSE app

\* render_general_settings: a choice in the search engine combo box
on_search_engine_choice(app, engine) ==
    IF settings_page_shown(app) /\ app.settings.selected_panel = "SettingsPanel::General"
    THEN [app EXCEPT !.settings.search_engine = engine]
    ELSE app

\* ---- positions of the handlers in update(), in source order ----
\* the handlers before the tab bar loop, and those after it
HandlersBeforeTabBar ==
    <<"ctrl_t", "ctrl_w", "ctrl_r", "alt_left", "alt_right", "alt_home",
      "deferred_close">>

HandlersAfterTabBar ==
    <<"new_tab_button", "handle_switch", "handle_new_tab", "sidebar", "back",
      "forward", "reload_stop", "home", "address_bar", "enter",
      "settings_panel", "homepage_edit", "search_engine_choice", "end">>

\* in the tab bar loop, the label and then the close button of each tab
PcLabel(index) == Len(HandlersBeforeTabBar) + 2 * index + 1
PcCloseButton(index) == Len(HandlersBeforeTabBar) + 2 * index + 2

\* the position of each handler
Pc ==
    [handler \in {HandlersBeforeTabBar[i] : i \in 1 .. Len(HandlersBeforeTabBar)}
                 \cup {HandlersAfterTabBar[i] : i \in 1 .. Len(HandlersAfterTabBar)} |->
        IF \E i \in 1 .. Len(HandlersBeforeTabBar) : HandlersBeforeTabBar[i] = handler
        THEN CHOOSE i \in 1 .. Len(HandlersBeforeTabBar) : HandlersBeforeTabBar[i] = handler
        ELSE Len(HandlersBeforeTabBar) + 2 * MaxTabs
             + (CHOOSE i \in 1 .. Len(HandlersAfterTabBar) : HandlersAfterTabBar[i] = handler)]

IdSet(ts) == {ts[k].id : k \in 1 .. Len(ts)}

\* the id of the tab at index, if there is one
IdAt(index) == IF index < Len(tabs) THEN Some(tabs[index + 1].id) ELSE None

\* frame: pc, the locals of update() (switch_to_tab, new_tab_clicked), the
\* number of inputs so far, and a record of what happened: the handler run
\* last (cmd), the close_tab calls of this pass (closes), the tab ids before
\* the last handler and at the start of the pass, the tab a pending
\* tab_to_close designated when written (recorded), the tabs for which a
\* close was requested and not yet applied (requested), and the last
\* deferred close (applied)
FrameNew ==
    [pc |-> 0, switch_to_tab |-> None, new_tab_clicked |-> FALSE, events |-> 0,
     cmd |-> "new", closes |-> 0, ids_before |-> {1}, ids_at_start |-> {1},
     recorded |-> None, requested |-> {}, applied |-> None]

InitUI ==
    /\ \E loaded \in GeneralSettings :
           /\ tabs = BrowserAppNew(loaded).tab_manager.tabs
           /\ active_tab_index = BrowserAppNew(loaded).tab_manager.active_tab_index
           /\ next_id = BrowserAppNew(loaded).next_id
           /\ url_input = BrowserAppNew(loaded).url_input
           /\ tab_to_close = BrowserAppNew(loaded).tab_to_close
           /\ settings = BrowserAppNew(loaded).settings
    /\ frame = FrameNew
    /\ last = Call("new", NoArg, TRUE)
    /\ pre = TabManagerNew(1)
    /\ steps = 0
    /\ fault = FALSE
    /\ UrlUnused
    /\ ConvUnused
    /\ PwdUnused
    /\ VpnUnused

SetApp(app) ==
    /\ tabs' = app.tab_manager.tabs
    /\ active_tab_index' = app.tab_manager.active_tab_index
    /\ next_id' = app.next_id
    /\ url_input' = app.url_input
    /\ tab_to_close' = app.tab_to_close
    /\ settings' = app.settings
    /\ UNCHANGED <<last, pre, steps, fault, url_io, conv, pwdVars, vpnVars>>

\* code between pc and position p that runs whether or not there is input
Blocked(p) ==
    \/ frame.pc < Pc["deferred_close"] /\ Pc["deferred_close"] < p /\ tab_to_close # None
    \/ frame.pc < Pc["handle_switch"] /\ Pc["handle_switch"] < p /\ frame.switch_to_tab # None
    \/ frame.pc < Pc["handle_new_tab"] /\ Pc["handle_new_tab"] < p /\ frame.new_tab_clicked

\* the pass can get to position p
Reaches(p) == frame.pc < p /\ ~Blocked(p)

\* ... on an input of the user
Input(p) == Reaches(p) /\ frame.events < MaxEvents

\* the frame after the handler at p has run
Moved(f, p, cmd, inputs) ==
    [f EXCEPT !.pc = p, !.cmd = cmd, !.events = @ + inputs,
              !.ids_before = IdSet(tabs), !.applied = None]

\* index has been written into tab_to_close
Recorded(f, index) ==
    [f EXCEPT !.recorded = IdAt(index),
              !.requested = IF tab_count(Cur) > 1 /\ index < Len(tabs)
                            THEN @ \cup {tabs[index + 1].id}
                            ELSE @]

KeyCtrlT ==
    /\ Input(Pc["ctrl_t"])
    /\ Len(tabs) < MaxTabs
    /\ SetApp(on_ctrl_t(App))
    /\ frame' = Moved(frame, Pc["ctrl_t"], "ctrl_t", 1)

KeyCtrlW ==
    /\ Input(Pc["ctrl_w"])
    /\ SetApp(on_ctrl_w(App))
    /\ frame' = Moved(IF tab_count(Cur) > 1
                      THEN Recorded(frame, active_tab_index)
                      ELSE frame,
                      Pc["ctrl_w"], "ctrl_w", 1)

KeyCtrlR ==
    /\ Input(Pc["ctrl_r"])
    /\ SetApp(on_ctrl_r(App))
    /\ frame' = Moved(frame, Pc["ctrl_r"], "ctrl_r", 1)

KeyAltLeft ==
    /\ Input(Pc["alt_left"])
    /\ can_go_back(active_tab(Cur))
    /\ SetApp(on_back(App))
    /\ frame' = Moved(frame, Pc["alt_left"], "alt_left", 1)

KeyAltRight ==
    /\ Input(Pc["alt_right"])
    /\ can_go_forward(active_tab(Cur))
    /\ SetApp(on_forward(App))
    /\ frame' = Moved(frame, Pc["alt_right"], "alt_right", 1)

KeyAltHome ==
    /\ Input(Pc["alt_home"])
    /\ SetApp(on_home(App))
    /\ frame' = Moved(frame, Pc["alt_home"], "alt_home", 1)

DeferredTabClose ==
    /\ Reaches(Pc["deferred_close"])
    /\ tab_to_close # None
    /\ SetApp(deferred_tab_close(App))
    /\ LET index == tab_to_close[1]
           closed == IF close_tab(Cur, index).ret THEN IdSet(tabs) \ IdSet(tabs') ELSE {}
       IN frame' = [Moved(frame, Pc["deferred_close"], "deferred_close", 0)
                       EXCEPT !.closes = @ + 1,
                              !.recorded = None,
                              !.requested = {},
                              !.applied = Some([index |-> index,
                                                in_bounds |-> index < Len(tabs),
                                                id |-> IdAt(index),
                                                recorded |-> frame.recorded,
                                                ret |-> close_tab(Cur, index).ret,
                                                dropped |-> frame.requested \ closed])]

ClickTabLabel ==
    \E index \in 0 .. (Len(tabs) - 1) :
        /\ Input(PcLabel(index))
        /\ frame' = Moved([frame EXCEPT !.switch_to_tab = Some(index)],
                          PcLabel(index), "tab_label", 1)
        /\ UNCHANGED <<tabVars, url_input, tab_to_close, settings,
                       url_io, conv, pwdVars, vpnVars>>

ClickCloseButton ==
    \E index \in 0 .. (Len(tabs) - 1) :
        /\ Input(PcCloseButton(index))
        /\ SetApp(on_close_button(App, index))
        /\ frame' = Moved(Recorded(frame, index), PcCloseButton(index), "close_button", 1)

ClickNewTabButton ==
    /\ Input(Pc["new_tab_button"])
    /\ Len(tabs) < MaxTabs
    /\ frame' = Moved([frame EXCEPT !.new_tab_clicked = TRUE],
                      Pc["new_tab_button"], "new_tab_button", 1)
    /\ UNCHANGED <<tabVars, url_input, tab_to_close, settings,
                   url_io, conv, pwdVars, vpnVars>>

HandleTabSwitch ==
    /\ Reaches(Pc["handle_switch"])
    /\ frame.switch_to_tab # None
    /\ SetApp(handle_tab_switch(App, frame.switch_to_tab[1]))
    /\ frame' = Moved([frame EXCEPT !.switch_to_tab = None],
                      Pc["handle_switch"], "switch", 0)

HandleNewTab ==
    /\ Reaches(Pc["handle_new_tab"])
    /\ frame.new_tab_clicked
    /\ SetApp(handle_new_tab(App))
    /\ frame' = Moved([frame EXCEPT !.new_tab_clicked = FALSE],
                      Pc["handle_new_tab"], "new_tab", 0)

ClickSidebar ==
    \E item \in SidebarItems :
        /\ Input(Pc["sidebar"])
        /\ SetApp(on_sidebar(App, item))
        /\ frame' = Moved(frame, Pc["sidebar"],
                          IF item \in {"Settings", "Search"} THEN "sidebar" ELSE "sidebar_other",
                          1)

ClickBack ==
    /\ Input(Pc["back"])
    /\ can_go_back(active_tab(Cur))
    /\ SetApp(on_back(App))
    /\ frame' = Moved(frame, Pc["back"], "back", 1)

ClickForward ==
    /\ Input(Pc["forward"])
    /\ can_go_forward(active_tab(Cur))
    /\ SetApp(on_forward(App))
    /\ frame' = Moved(frame, Pc["forward"], "forward", 1)

ClickReloadStop ==
    /\ Input(Pc["reload_stop"])
    /\ SetApp(on_reload_stop(App))
    /\ frame' = Moved(frame, Pc["reload_stop"], "reload_stop", 1)

ClickHome ==
    /\ Input(Pc["home"])
    /\ SetApp(on_home(App))
    /\ frame' = Moved(frame, Pc["home"], "home", 1)

\* the TextEdit of the address bar edits url_input
TypeText ==
    \E text \in TypedTexts :
        /\ Input(Pc["address_bar"])
        /\ SetApp([App EXCEPT !.url_input = text])
        /\ frame' = Moved(frame, Pc["address_bar"], "type", 1)

PressEnter ==
    /\ Input(Pc["enter"])
    /\ SetApp(on_enter(App))
    /\ frame' = Moved(frame, Pc["enter"], "enter", 1)

\* the central panel: render_content, last in update()
ClickSettingsPanel ==
    \E panel \in SettingsPanels :
        /\ Input(Pc["settings_panel"])
        /\ settings_page_shown(App)
        /\ SetApp(on_settings_panel(App, panel))
        /\ frame' = Moved(frame, Pc["settings_panel"], "settings_panel", 1)

EditHomepage ==
    \E text \in Homepages :
        /\ Input(Pc["homepage_edit"])
        /\ settings_page_shown(App)
        /\ settings.selected_panel = "SettingsPanel::General"
        /\ SetApp(on_homepage_edit(App, text))
        /\ frame' = Moved(frame, Pc["homepage_edit"], "homepage_edit", 1)

ChooseSearchEngine ==
    \E engine \in SearchEngines :
        /\ Input(Pc["search_engine_choice"])
        /\ settings_page_shown(App)
        /\ settings.selected_panel = "SettingsPanel::General"
        /\ SetApp(on_search_engine_choice(App, engine))
        /\ frame' = Moved(frame, Pc["search_engine_choice"], "search_engine_choice", 1)

\* update() returns; the next pass starts with fresh locals
EndPass ==
    /\ frame.pc > 0
    /\ ~Blocked(Pc["end"])
    /\ frame' = [frame EXCEPT !.pc = 0, !.cmd = "idle", !.closes = 0,
                              !.ids_before = IdSet(tabs),
                              !.ids_at_start = IdSet(tabs),
                              !.applied = None]
    /\ UNCHANGED <<tabVars, url_input, tab_to_close, settings,
                   url_io, conv, pwdVars, vpnVars>>

NextUI ==
    \/ KeyCtrlT
    \/ KeyCtrlW
    \/ KeyCtrlR
    \/ KeyAltLeft
    \/ KeyAltRight
    \/ KeyAltHome
    \/ DeferredTabClose
    \/ ClickTabLabel
    \/ ClickCloseButton
    \/ ClickNewTabButton
    \/ HandleTabSwitch
    \/ HandleNewTab
    \/ ClickSidebar
    \/ ClickBack
    \/ ClickForward
    \/ ClickReloadStop
    \/ ClickHome
    \/ TypeText
    \/ PressEnter
    \/ ClickSettingsPanel
    \/ EditHomepage
    \/ ChooseSearchEngine
    \/ EndPass

SpecUI == InitUI /\ [][NextUI]_vars

\* ---- C21 .. C23, C25, C26 ----

\* the deferred close has just run
AfterDeferredClose == frame.cmd = "deferred_close"

\* C21: tabs leave the list only in the deferred close (never in the tab bar
\* loop or in another handler), a close request is only recorded in
\* tab_to_close, a pass makes at most one close_tab call and removes at most
\* one tab, and tab_to_close is empty right after the deferred close
C21_DeferredClose ==
    /\ (frame.ids_before \ IdSet(tabs) # {}) => AfterDeferredClose
    /\ (frame.cmd \in {"close_button", "ctrl_w"}) =>
           /\ IdSet(tabs) = frame.ids_before
           /\ (frame.recorded # None) => tab_to_close # None
    /\ frame.closes <= 1
    /\ Cardinality(frame.ids_at_start \ IdSet(tabs)) <= 1
    /\ AfterDeferredClose => tab_to_close = None

\* a recorded close has been applied: one tab has left the list, in the
\* deferred close, as the first change of the tab list in its pass
C21_Witness ==
    /\ AfterDeferredClose
    /\ frame.applied[1].ret
    /\ frame.events >= 2
    /\ frame.closes = 1
    /\ Cardinality(frame.ids_before \ IdSet(tabs)) = 1
    /\ frame.ids_at_start = frame.ids_before

\* C22: when the deferred close calls close_tab(index), index is a position
\* of the tab list and the tab there is the one that was there when index was
\* written into tab_to_close
C22_SameTabClosed ==
    AfterDeferredClose =>
        /\ frame.applied[1].in_bounds
        /\ frame.applied[1].recorded # None
        /\ frame.applied[1].id = frame.applied[1].recorded

\* a tab was opened and the active tab changed between the click on a close
\* button and the deferred close
C22_Witness ==
    /\ AfterDeferredClose
    /\ frame.applied[1].ret
    /\ frame.applied[1].index = 0
    /\ frame.applied[1].recorded = Some(1)
    /\ Len(tabs) = 2
    /\ active_tab_index = 1
    /\ frame.ids_before = {1, 2, 3}

\* C23: every close request recorded while more than one tab was open is
\* applied to its tab by the next deferred close: none is dropped or replaced
\* by a later request
C23_NoRequestLost ==
    AfterDeferredClose =>
        /\ frame.applied[1].dropped = {}
        /\ (frame.requested = {}) /\ (frame.recorded = None)

\* C25: after BrowserApp::new() the url of the active tab is the homepage of
\* the settings, the one the go-home command navigates to
C25_InitialTabAtHomepage ==
    (frame.cmd = "new") => active_tab(Cur).url = settings.homepage

\* the handlers that change which tab is active or the url of the active tab
UrlCommands ==
    {"ctrl_t", "new_tab", "deferred_close", "switch", "alt_left", "back",
     "alt_right", "forward", "alt_home", "home", "sidebar", "enter"}

\* C26: after the handler of a command that changes which tab is active or
\* the url of the active tab, url_input is the url of the active tab
C26_AddressBarInSync ==
    (frame.cmd \in UrlCommands) => url_input = active_tab(Cur).url

\* closing the new tab brought back a tab at another url, and the address bar
\* shows that url
C26_Witness ==
    /\ AfterDeferredClose
    /\ frame.applied[1].ret
    /\ Len(tabs) = 1
    /\ url_input = "https://example.com"
    /\ tabs[1].url = "https://example.com"
    /\ frame.ids_before = {1, 2}

(***************************************************************************)
(* Settings conversion (src/ui/src/settings.rs): SettingsUI::to_storage    *)
(* and SettingsUI::from_storage. The stored form                           *)
(* (src/storage/src/settings.rs) keeps search engine and theme as strings  *)
(* and has the groups privacy, appearance, general and advanced.           *)
(***************************************************************************)

\* Values of the enums are written Type::Variant.

\* SearchEngine::name
search_engine_name(e) ==
    CASE e = "SearchEngine::DuckDuckGo" -> "DuckDuckGo"
      [] e = "SearchEngine::Google" -> "Google"
      [] e = "SearchEngine::Bing" -> "Bing"
      [] e = "SearchEngine::Brave" -> "Brave"

\* Theme::name
theme_name(t) ==
    CASE t = "Theme::Dark" -> "Dark"
      [] t = "Theme::Light" -> "Light"

\* GeneralSettings::default, PrivacySettings::default, ...
GeneralDefault ==
    [homepage |-> "about:home", search_engine |-> "SearchEngine::DuckDuckGo",
     restore_tabs_on_startup |-> FALSE]

PrivacyDefault ==
    [tracking_protection |-> TRUE, do_not_track |-> TRUE,
     block_third_party_cookies |-> TRUE, clear_data_on_exit |-> FALSE,
     https_only |-> FALSE]

AppearanceDefault ==
    [theme |-> "Theme::Dark", font_size |-> 14, show_bookmarks_bar |-> FALSE]

NetworkDefault ==
    [dns_provider |-> "DnsProvider::System", custom_dns_servers |-> "",
     vpn_enabled |-> FALSE, vpn_type |-> "VpnType::Proxy", proxy_host |-> "",
     proxy_port |-> 8080]

\* the platform: what dirs::download_dir() gives, as a string when the path
\* has one, and the target_os of the build
Platforms ==
    {[download_dir |-> Some("/home/user/Downloads"), target_os |-> "linux"],
     [download_dir |-> None, target_os |-> "linux"],
     [download_dir |-> None, target_os |-> "windows"]}

DownloadsDefault(platform) ==
    LET download_dir ==
            IF platform.download_dir # None THEN platform.download_dir[1]
            ELSE IF platform.target_os = "windows" THEN "C:\\Users\\Downloads"
            ELSE "/tmp/downloads"
    IN [download_directory |-> download_dir, ask_where_to_save |-> TRUE]

AdvancedDefault ==
    [enable_developer_tools |-> FALSE, hardware_acceleration |-> TRUE,
     experimental_features |-> FALSE]

\* SettingsUI::new
SettingsUINew(platform) ==
    [general |-> GeneralDefault, privacy |-> PrivacyDefault,
     appearance |-> AppearanceDefault, network |-> NetworkDefault,
     downloads |-> DownloadsDefault(platform), advanced |-> AdvancedDefault,
     selected_panel |-> PanelDefault]

\* SettingsUI::to_storage
to_storage(s) ==
    [general |-> [homepage |-> s.general.homepage,
                  search_engine |-> search_engine_name(s.general.search_engine),
                  download_directory |-> s.downloads.download_directory,
                  restore_tabs_on_startup |-> s.general.restore_tabs_on_startup,
                  ask_where_to_save |-> s.downloads.ask_where_to_save],
     privacy |-> [tracking_protection |-> s.privacy.tracking_protection,
                  do_not_track |-> s.privacy.do_not_track,
                  block_third_party_cookies |-> s.privacy.block_third_party_cookies,
                  clear_on_exit |-> s.privacy.clear_data_on_exit,
                  https_only |-> s.privacy.https_only],
     appearance |-> [theme |-> theme_name(s.appearance.theme),
                     font_size |-> s.appearance.font_size,
                     show_bookmarks_bar |-> s.appearance.show_bookmarks_bar],
     advanced |-> [enable_developer_tools |-> s.advanced.enable_developer_tools,
                   hardware_acceleration |-> s.advanced.hardware_acceleration,
                   experimental_features |-> s.advanced.experimental_features]]

\* SettingsUI::from_storage
from_storage(st) ==
    LET search_engine ==
            IF st.general.search_engine = "Google" THEN "SearchEngine::Google"
            ELSE IF st.general.search_engine = "Bing" THEN "SearchEngine::Bing"
            ELSE IF st.general.search_engine = "Brave" THEN "SearchEngine::Brave"
            ELSE "SearchEngine::DuckDuckGo"
        theme ==
            IF st.appearance.theme = "Light" THEN "Theme::Light" ELSE "Theme::Dark"
    IN [general |-> [homepage |-> st.general.homepage,
                     search_engine |-> search_engine,
                     restore_tabs_on_startup |-> st.general.restore_tabs_on_startup],
        privacy |-> [tracking_protection |-> st.privacy.tracking_protection,
                     do_not_track |-> st.privacy.do_not_track,
                     block_third_party_cookies |-> st.privacy.block_third_party_cookies,
                     clear_data_on_exit |-> st.privacy.clear_on_exit,
                     https_only |-> st.privacy.https_only],
        appearance |-> [theme |-> theme,
                        font_size |-> st.appearance.font_size,
                        show_bookmarks_bar |-> st.appearance.show_bookmarks_bar],
        network |-> NetworkDefault,
        downloads |-> [download_directory |-> st.general.download_directory,
                       ask_where_to_save |-> st.general.ask_where_to_save],
        advanced |-> [enable_developer_tools |-> st.advanced.enable_developer_tools,
                      hardware_acceleration |-> st.advanced.hardware_acceleration,
                      experimental_features |-> st.advanced.experimental_features],
        selected_panel |-> PanelDefault]

\* the settings tried: the defaults of a platform with the fields of one group
\* set by the user
SettingsValues ==
    UNION {
    {[SettingsUINew(platform) EXCEPT !.general = v] : v \in
        [homepage : {"about:home", "https://example.com"},
         search_engine : {"SearchEngine::DuckDuckGo", "SearchEngine::Google",
                          "SearchEngine::Bing", "SearchEngine::Brave"},
         restore_tabs_on_startup : BOOLEAN]}
    \cup {[SettingsUINew(platform) EXCEPT !.privacy = v] : v \in
        [tracking_protection : BOOLEAN, do_not_track : BOOLEAN,
         block_third_party_cookies : BOOLEAN, clear_data_on_exit : BOOLEAN,
         https_only : BOOLEAN]}
    \cup {[SettingsUINew(platform) EXCEPT !.appearance = v] : v \in
        [theme : {"Theme::Dark", "Theme::Light"}, font_size : {12, 14},
         show_bookmarks_bar : BOOLEAN]}
    \cup {[SettingsUINew(platform) EXCEPT !.network = v] : v \in
        [dns_provider : {"DnsProvider::System", "DnsProvider::Google",
                         "DnsProvider::Cloudflare", "DnsProvider::Quad9",
                         "DnsProvider::Custom"},
         custom_dns_servers : {"", "9.9.9.9"},
         vpn_enabled : BOOLEAN,
         vpn_type : {"VpnType::Proxy", "VpnType::Socks5", "VpnType::OpenVpn"},
         proxy_host : {"", "proxy.example.com"},
         proxy_port : {8080, 3128}]}
    \cup {[SettingsUINew(platform) EXCEPT !.downloads = v] : v \in
        [download_directory : {"/tmp/downloads", "/home/user/dl"},
         ask_where_to_save : BOOLEAN]}
    \cup {[SettingsUINew(platform) EXCEPT !.advanced = v] : v \in
        [enable_developer_tools : BOOLEAN, hardware_acceleration : BOOLEAN,
         experimental_features : BOOLEAN]}
    \cup {[SettingsUINew(platform) EXCEPT !.selected_panel = v] : v \in
        {"SettingsPanel::General", "SettingsPanel::Privacy", "SettingsPanel::Network"}}
    : platform \in Platforms}

InitSettings ==
    /\ conv \in {[stage |-> "ui", ui |-> s] : s \in SettingsValues}
    /\ TabsInit
    /\ AppUnused
    /\ UrlUnused
    /\ PwdUnused
    /\ VpnUnused

\* let stored = s.to_storage()
ToStorage ==
    /\ conv.stage = "ui"
    /\ conv' = [stage |-> "stored", ui |-> conv.ui, stored |-> to_storage(conv.ui)]
    /\ UNCHANGED <<tabVars, appVars, url_io, pwdVars, vpnVars>>

\* SettingsUI::from_storage(&stored)
FromStorage ==
    /\ conv.stage = "stored"
    /\ conv' = [stage |-> "back", ui |-> conv.ui, stored |-> conv.stored,
                back |-> from_storage(conv.stored)]
    /\ UNCHANGED <<tabVars, appVars, url_io, pwdVars, vpnVars>>

NextSettings ==
    \/ ToStorage
    \/ FromStorage

SpecSettings == InitSettings /\ [][NextSettings]_vars

\* ---- C28 ----
\* C28: a SettingsUI converted to its stored form and back is the same in the
\* groups general, privacy, appearance, network, downloads and advanced
C28_RoundTripLossless ==
    (conv.stage = "back") =>
        /\ conv.back.general = conv.ui.general
        /\ conv.back.privacy = conv.ui.privacy
        /\ conv.back.appearance = conv.ui.appearance
        /\ conv.back.network = conv.ui.network
        /\ conv.back.downloads = conv.ui.downloads
        /\ conv.back.advanced = conv.ui.advanced

(***************************************************************************)
(* PasswordManager (src/storage/src/passwords.rs). The HashMap passwords   *)
(* is a function from its keys to the Vec of entries of the key. The       *)
(* timestamps of an entry are left out.                                    *)
(***************************************************************************)

\* the lower-case letter of each upper-case letter
LowerOf ==
    LET upper == "ABCDEFGHIJKLMNOPQRSTUVWXYZÀÁÂÃÄÅÆÇÈÉÊËÌÍÎÏÐÑÒÓÔÕÖØÙÚÛÜÝÞ"
        lower == "abcdefghijklmnopqrstuvwxyzàáâãäåæçèéêëìíîïðñòóôõöøùúûüýþ"
    IN [c \in {CharAt(upper, i) : i \in 1 .. Len(upper)} |->
           CharAt(lower, CHOOSE i \in 1 .. Len(upper) : CharAt(upper, i) = c)]

\* char::to_lowercase
to_lowercase_char(c) == IF c \in DOMAIN LowerOf THEN LowerOf[c] ELSE c

\* str::to_lowercase
RECURSIVE to_lowercase(_)
to_lowercase(s) ==
    IF Len(s) = 0 THEN ""
    ELSE to_lowercase_char(CharAt(s, 1)) \o to_lowercase(Tail(s))

\* str::trim_start_matches(&str): the prefix is removed as often as it occurs
RECURSIVE trim_start_matches(_, _)
trim_start_matches(s, prefix) ==
    IF Len(prefix) > 0 /\ starts_with(s, prefix)
    THEN trim_start_matches(SubSeq(s, Len(prefix) + 1, Len(s)), prefix)
    ELSE s

\* str::trim_end_matches(char)
RECURSIVE trim_end_matches(_, _)
trim_end_matches(s, c) ==
    IF Len(s) > 0 /\ CharAt(s, Len(s)) = c
    THEN trim_end_matches(SubSeq(s, 1, Len(s) - 1), c)
    ELSE s

\* the urls the calls are tried with, and those given to get_password
PwdUrls ==
    {"example.com", "https://example.com", "http://www.Example.com/",
     "other.org", "https://https://other.org//"}
LookupUrls == {"example.com", "https://https://other.org//"}

\* PasswordEntry::normalize_url, step by step
normalize_url_steps(url) ==
    to_lowercase(
        trim_end_matches(
            trim_start_matches(
                trim_start_matches(
                    trim_start_matches(url, "https://"),
                    "http://"),
                "www."),
            "/"))

\* normalize_url_steps of the urls tried, a table evaluated once
NormalizedUrls == [url \in PwdUrls \cup LookupUrls |-> normalize_url_steps(url)]

\* PasswordEntry::normalize_url
normalize_url(url) ==
    IF url \in DOMAIN NormalizedUrls THEN NormalizedUrls[url]
    ELSE normalize_url_steps(url)

\* PasswordEntry::new
PasswordEntryNew(url, username, password) ==
    [url |-> normalize_url(url), username |-> username, password |-> password,
     use_count |-> 0]

\* PasswordManager::new
PasswordManagerNew == [passwords |-> <<>>, modified |-> FALSE]

\* entries.iter().any(|e| e.username == username)
has_username(entries, username) ==
    \E i \in 1 .. Len(entries) : entries[i].username = username

\* HashMap::insert and HashMap::remove
map_insert(map, key, value) ==
    [k \in (DOMAIN map) \cup {key} |-> IF k = key THEN value ELSE map[k]]

map_remove(map, key) == [k \in (DOMAIN map) \ {key} |-> map[k]]

\* add_password that looks the url up as given
add_password_exact_url(m, url, username, password) ==
    LET entry == PasswordEntryNew(url, username, password)
        normalized_url == normalize_url(url)
        old == IF normalized_url \in DOMAIN m.passwords
               THEN m.passwords[normalized_url] ELSE <<>>
    IN IF url \in DOMAIN m.passwords /\ has_username(m.passwords[url], username)
       THEN [mgr |-> m, ret |-> "Err"]
       ELSE [mgr |-> [passwords |-> map_insert(m.passwords, normalized_url, Append(old, entry)),
                      modified |-> TRUE],
             ret |-> "Ok"]

\* PasswordManager::add_password
add_password(m, url, username, password) ==
    LET entry == PasswordEntryNew(url, username, password)
        normalized_url == normalize_url(url)
        old == IF normalized_url \in DOMAIN m.passwords
               THEN m.passwords[normalized_url] ELSE <<>>
    IN IF normalized_url \in DOMAIN m.passwords
          /\ has_username(m.passwords[normalized_url], username)
       THEN [mgr |-> m, ret |-> "Err"]
       ELSE [mgr |-> [passwords |-> map_insert(m.passwords, normalized_url, Append(old, entry)),
                      modified |-> TRUE],
             ret |-> "Ok"]

\* PasswordManager::update_password: the first entry of the username changes
update_password(m, url, username, new_password) ==
    LET normalized_url == normalize_url(url)
    IN IF normalized_url \in DOMAIN m.passwords
          /\ has_username(m.passwords[normalized_url], username)
       THEN LET entries == m.passwords[normalized_url]
                first == CHOOSE i \in 1 .. Len(entries) :
                             /\ entries[i].username = username
                             /\ \A j \in 1 .. (i - 1) : entries[j].username # username
            IN [mgr |-> [passwords |-> [m.passwords EXCEPT
                                           ![normalized_url][first].password = new_password],
                         modified |-> TRUE],
                ret |-> "Ok"]
       ELSE [mgr |-> m, ret |-> "Err"]

\* Vec::retain(|e| e.username != username)
RECURSIVE retain_other_users(_, _)
retain_other_users(entries, username) ==
    IF entries = <<>> THEN <<>>
    ELSE IF Head(entries).username # username
         THEN <<Head(entries)>> \o retain_other_users(Tail(entries), username)
         ELSE retain_other_users(Tail(entries), username)

\* PasswordManager::delete_password
delete_password(m, url, username) ==
    LET normalized_url == normalize_url(url)
    IN IF normalized_url \in DOMAIN m.passwords
       THEN LET initial_len == Len(m.passwords[normalized_url])
                entries == retain_other_users(m.passwords[normalized_url], username)
            IN IF Len(entries) < initial_len
               THEN [mgr |-> [passwords |-> IF Len(entries) = 0
                                            THEN map_remove(m.passwords, normalized_url)
                                            ELSE [m.passwords EXCEPT ![normalized_url] = entries],
                              modified |-> TRUE],
                     ret |-> "Ok"]
               ELSE [mgr |-> m, ret |-> "Err"]
       ELSE [mgr |-> m, ret |-> "Err"]

\* PasswordManager::clear_all
clear_all(m) == [passwords |-> <<>>, modified |-> TRUE]

\* PasswordManager::get_password: the place (key and position) of the first
\* entry of the username under the normalized url, the &mut PasswordEntry
get_password(m, url, username) ==
    LET normalized_url == normalize_url(url)
    IN IF normalized_url \in DOMAIN m.passwords
          /\ has_username(m.passwords[normalized_url], username)
       THEN LET entries == m.passwords[normalized_url]
            IN Some([key |-> normalized_url,
                     index |-> CHOOSE i \in 1 .. Len(entries) :
                                   /\ entries[i].username = username
                                   /\ \A j \in 1 .. (i - 1) : entries[j].username # username])
       ELSE None

\* a write through the reference that get_password returned
with_entry(m, place, entry) ==
    [m EXCEPT !.passwords[place.key][place.index] = entry]

\* PasswordEntry::update_password (modified_at is not part of the model)
entry_update_password(entry, new_password) == [entry EXCEPT !.password = new_password]

\* PasswordEntry::increment_use_count
increment_use_count(entry) == [entry EXCEPT !.use_count = @ + 1]

\* PasswordManager::load: file is the file at the path, whether it exists,
\* whether it reads and parses as a map of entry lists, and that map
load(m, file) ==
    IF ~file.exists THEN [mgr |-> m, ret |-> "Ok"]
    ELSE IF ~file.parses THEN [mgr |-> m, ret |-> "Err"]
    ELSE [mgr |-> [passwords |-> file.passwords, modified |-> FALSE], ret |-> "Ok"]

\* PasswordManager::with_storage_path (storage_path itself matters to
\* save_to_storage only, which leaves the manager as it is)
with_storage_path(file) ==
    IF file.exists THEN load(PasswordManagerNew, file)
    ELSE [mgr |-> PasswordManagerNew, ret |-> "Ok"]

\* sum of the lengths of the entry lists of the keys in ks
RECURSIVE sum_len(_, _)
sum_len(map, ks) ==
    IF ks = {} THEN 0
    ELSE LET k == CHOOSE x \in ks : TRUE
         IN Len(map[k]) + sum_len(map, ks \ {k})

\* PasswordManager::count
count(m) == sum_len(m.passwords, DOMAIN m.passwords)

\* ---- the arguments tried ----
Usernames == {"alice", "bob"}
Passwords == {"p1", "p2"}

\* the calls besides add_password, update_password, delete_password and
\* clear_all (load, and writes through get_password's reference) are counted
MaxOutsideCalls == 1

\* the stored entry lists a file may hold
PwdFileMaps ==
    LET e(url, username, password) ==
            [url |-> url, username |-> username, password |-> password, use_count |-> 0]
    IN {<<>>,
        [k \in {"example.com"} |-> <<e("example.com", "bob", "p1")>>],
        [k \in {"example.com", "other.org"} |->
            IF k = "example.com"
            THEN <<e("example.com", "alice", "p1"), e("example.com", "alice", "p2")>>
            ELSE <<>>]}

\* the file at the path given to load or with_storage_path
PwdFiles ==
    {[exists |-> FALSE, parses |-> FALSE, passwords |-> <<>>],
     [exists |-> TRUE, parses |-> FALSE, passwords |-> <<>>]}
    \cup {[exists |-> TRUE, parses |-> TRUE, passwords |-> map] : map \in PwdFileMaps}

\* the value assigned to the pub field url of an entry
AssignedUrls == {"Example.com"}

\* pwd_log: the last call and its result, for an add_password also its
\* arguments and the manager before it, and the number of counted calls
PwdCall(op, ret) ==
    [op |-> op, url |-> "", username |-> "", ret |-> ret, pre |-> None,
     outside |-> pwd_log.outside]

PwdOutsideCall(op, ret) == [PwdCall(op, ret) EXCEPT !.outside = @ + 1]

\* PasswordManager::new(), or with_storage_path on one of the files
InitPwd ==
    /\ \/ /\ pwd = PasswordManagerNew
          /\ pwd_log = [op |-> "new", url |-> "", username |-> "", ret |-> "Ok",
                        pre |-> None, outside |-> 0]
       \/ \E file \in PwdFiles :
              /\ with_storage_path(file).ret = "Ok"
              /\ pwd = with_storage_path(file).mgr
              /\ pwd_log = [op |-> "with_storage_path", url |-> "", username |-> "",
                            ret |-> "Ok", pre |-> None,
                            outside |-> IF file.exists THEN 1 ELSE 0]
    /\ TabsInit
    /\ AppUnused
    /\ UrlUnused
    /\ ConvUnused
    /\ VpnUnused

AddPassword ==
    \E url \in PwdUrls : \E username \in Usernames : \E password \in Passwords :
        /\ LET res == add_password(pwd, url, username, password)
           IN /\ pwd' = res.mgr
              /\ pwd_log' = [PwdCall("add_password", res.ret) EXCEPT
                                !.url = url, !.username = username, !.pre = Some(pwd)]
        /\ UNCHANGED <<tabVars, appVars, url_io, conv, vpnVars>>

UpdatePassword ==
    \E url \in PwdUrls : \E username \in Usernames : \E password \in Passwords :
        /\ LET res == update_password(pwd, url, username, password)
           IN /\ pwd' = res.mgr
              /\ pwd_log' = PwdCall("update_password", res.ret)
        /\ UNCHANGED <<tabVars, appVars, url_io, conv, vpnVars>>

DeletePassword ==
    \E url \in PwdUrls : \E username \in Usernames :
        /\ LET res == delete_password(pwd, url, username)
           IN /\ pwd' = res.mgr
              /\ pwd_log' = PwdCall("delete_password", res.ret)
        /\ UNCHANGED <<tabVars, appVars, url_io, conv, vpnVars>>

ClearAll ==
    /\ pwd' = clear_all(pwd)
    /\ pwd_log' = PwdCall("clear_all", "Ok")
    /\ UNCHANGED <<tabVars, appVars, url_io, conv, vpnVars>>

Load ==
    \E file \in PwdFiles :
        /\ pwd_log.outside < MaxOutsideCalls
        /\ LET res == load(pwd, file)
           IN /\ pwd' = res.mgr
              /\ pwd_log' = PwdOutsideCall("load", res.ret)
        /\ UNCHANGED <<tabVars, appVars, url_io, conv, vpnVars>>

\* if let Some(entry) = manager.get_password(url, username) { entry.increment_use_count() }
IncrementUseCount ==
    \E url \in LookupUrls : \E username \in Usernames :
        /\ pwd_log.outside < MaxOutsideCalls
        /\ LET place == get_password(pwd, url, username)
           IN /\ place # None
              /\ pwd' = with_entry(pwd, place[1],
                                   increment_use_count(pwd.passwords[place[1].key][place[1].index]))
        /\ pwd_log' = PwdOutsideCall("increment_use_count", "Some")
        /\ UNCHANGED <<tabVars, appVars, url_io, conv, vpnVars>>

\* ... { entry.update_password(new_password) }
EntryUpdatePassword ==
    \E url \in LookupUrls : \E username \in Usernames : \E password \in Passwords :
        /\ pwd_log.outside < MaxOutsideCalls
        /\ LET place == get_password(pwd, url, username)
           IN /\ place # None
              /\ pwd' = with_entry(pwd, place[1],
                                   entry_update_password(
                                       pwd.passwords[place[1].key][place[1].index], password))
        /\ pwd_log' = PwdOutsideCall("entry_update_password", "Some")
        /\ UNCHANGED <<tabVars, appVars, url_io, conv, vpnVars>>

\* ... { entry.username = new_username }
AssignUsername ==
    \E url \in LookupUrls : \E username \in Usernames : \E new_username \in Usernames :
        /\ pwd_log.outside < MaxOutsideCalls
        /\ LET place == get_password(pwd, url, username)
           IN /\ place # None
              /\ pwd' = with_entry(pwd, place[1],
                                   [pwd.passwords[place[1].key][place[1].index]
                                       EXCEPT !.username = new_username])
        /\ pwd_log' = PwdOutsideCall("assign_username", "Some")
        /\ UNCHANGED <<tabVars, appVars, url_io, conv, vpnVars>>

\* ... { entry.url = new_url }
AssignUrl ==
    \E url \in LookupUrls : \E username \in Usernames : \E new_url \in AssignedUrls :
        /\ pwd_log.outside < MaxOutsideCalls
        /\ LET place == get_password(pwd, url, username)
           IN /\ place # None
              /\ pwd' = with_entry(pwd, place[1],
                                   [pwd.passwords[place[1].key][place[1].index]
                                       EXCEPT !.url = new_url])
        /\ pwd_log' = PwdOutsideCall("assign_url", "Some")
        /\ UNCHANGED <<tabVars, appVars, url_io, conv, vpnVars>>

\* get_password finds no entry: there is nothing to write to
GetPasswordNone ==
    \E url \in LookupUrls : \E username \in Usernames :
        /\ pwd_log.outside < MaxOutsideCalls
        /\ get_password(pwd, url, username) = None
        /\ pwd' = pwd
        /\ pwd_log' = PwdOutsideCall("get_password", "None")
        /\ UNCHANGED <<tabVars, appVars, url_io, conv, vpnVars>>

NextPwd ==
    \/ AddPassword
    \/ UpdatePassword
    \/ DeletePassword
    \/ ClearAll
    \/ Load
    \/ IncrementUseCount
    \/ EntryUpdatePassword
    \/ AssignUsername
    \/ AssignUrl
    \/ GetPasswordNone

SpecPwd == InitPwd /\ [][NextPwd]_vars

\* ---- C29 ----
\* the (key, position) pairs of the stored entries
EntrySlots(m) ==
    UNION {{<<k, i>> : i \in 1 .. Len(m.passwords[k])} : k \in DOMAIN m.passwords}

EntryIn(m, slot) == m.passwords[slot[1]][slot[2]]

\* an entry for the normalized url and the username is stored in m
PairStored(m, url, username) ==
    LET normalized_url == normalize_url(url)
    IN \E slot \in EntrySlots(m) :
           /\ EntryIn(m, slot).url = normalized_url
           /\ EntryIn(m, slot).username = username

\* the manager started empty and only add_password, update_password,
\* delete_password and clear_all have been called
OnlyFourCalls == pwd_log.outside = 0

\* C29: after any sequence of add_password, update_password, delete_password
\* and clear_all on a manager that starts empty, no two stored entries have
\* the same normalized url and username, no key has an empty entry list, and
\* an add_password for a stored pair returns an error and leaves entries,
\* count() and modified as they were
C29_NoDuplicates ==
    OnlyFourCalls =>
        /\ \A s1 \in EntrySlots(pwd) : \A s2 \in EntrySlots(pwd) :
               (/\ EntryIn(pwd, s1).url = EntryIn(pwd, s2).url
                /\ EntryIn(pwd, s1).username = EntryIn(pwd, s2).username) => s1 = s2
        /\ \A k \in DOMAIN pwd.passwords : Len(pwd.passwords[k]) > 0
        /\ (pwd_log.op = "add_password"
            /\ PairStored(pwd_log.pre[1], pwd_log.url, pwd_log.username)) =>
               /\ pwd_log.ret = "Err"
               /\ pwd.passwords = pwd_log.pre[1].passwords
               /\ count(pwd) = count(pwd_log.pre[1])
               /\ pwd.modified = pwd_log.pre[1].modified

\* an add for a stored pair, written with another scheme, host prefix and
\* case, has been refused while other entries are stored
C29_Witness ==
    /\ OnlyFourCalls
    /\ pwd_log.op = "add_password"
    /\ pwd_log.url = "http://www.Example.com/"
    /\ pwd_log.ret = "Err"
    /\ "example.com" \in DOMAIN pwd.passwords
    /\ Len(pwd.passwords["example.com"]) = 2
    /\ count(pwd) = 3

(***************************************************************************)
(* VpnManager (src/networking/src/vpn.rs). connect() is an async fn: it    *)
(* runs to its await with the manager borrowed, so no other call comes in  *)
(* between; at the await it either resumes or its future is dropped.       *)
(***************************************************************************)

\* VpnStats::default() and a value reported while connected
VpnStatsDefault ==
    [bytes_downloaded |-> 0, bytes_uploaded |-> 0, duration |-> 0, public_ip |-> None]

VpnStatsValues ==
    {VpnStatsDefault,
     [bytes_downloaded |-> 2048, bytes_uploaded |-> 512, duration |-> 60,
      public_ip |-> None]}

\* VpnManager::new
VpnManagerNew ==
    [config |-> None, status |-> "Disconnected", stats |-> VpnStatsDefault,
     enabled |-> FALSE]

\* VpnConfig values passed to set_config
VpnConfigs ==
    {[kind |-> "Proxy", protocol |-> "Http", host |-> "proxy.example.com",
      port |-> 8080, username |-> None, password |-> None],
     [kind |-> "OpenVpn", config_path |-> "/etc/client.ovpn", username |-> None,
      password |-> None]}

\* paths given to load_ovpn_config: whether the file exists, and its extension
OvpnPaths ==
    {[path |-> "/etc/client.ovpn", exists |-> TRUE, extension |-> "ovpn"],
     [path |-> "/etc/missing.ovpn", exists |-> FALSE, extension |-> "ovpn"],
     [path |-> "/etc/client.txt", exists |-> TRUE, extension |-> "txt"]}

SocksVersions == {3, 4, 5}

\* VpnManager::enable
enable(m) == [m EXCEPT !.enabled = TRUE]

\* VpnManager::disconnect
disconnect(m) ==
    IF m.status # "Connected" THEN m
    ELSE [m EXCEPT !.status = "Disconnected", !.stats = VpnStatsDefault]

\* disable that only clears the flag
disable_flag_only(m) == [m EXCEPT !.enabled = FALSE]

\* VpnManager::disable
disable(m) ==
    LET m1 == [m EXCEPT !.enabled = FALSE]
    IN IF m1.status = "Connected" THEN disconnect(m1) ELSE m1

\* VpnManager::set_config
set_config(m, config) == [m EXCEPT !.config = Some(config)]

\* VpnManager::load_ovpn_config
load_ovpn_config(m, p) ==
    IF ~p.exists THEN [mgr |-> m, ret |-> "Err"]
    ELSE IF p.extension # "ovpn" THEN [mgr |-> m, ret |-> "Err"]
    ELSE [mgr |-> [m EXCEPT !.config = Some([kind |-> "OpenVpn", config_path |-> p.path,
                                             username |-> None, password |-> None])],
          ret |-> "Ok"]

\* VpnManager::configure_proxy
configure_proxy(m, protocol, host, port) ==
    [m EXCEPT !.config = Some([kind |-> "Proxy", protocol |-> protocol, host |-> host,
                               port |-> port, username |-> None, password |-> None])]

\* VpnManager::configure_socks
configure_socks(m, version, host, port) ==
    IF version # 4 /\ version # 5 THEN [mgr |-> m, ret |-> "Err"]
    ELSE [mgr |-> [m EXCEPT !.config = Some([kind |-> "Socks", version |-> version,
                                             host |-> host, port |-> port,
                                             username |-> None, password |-> None])],
          ret |-> "Ok"]

\* VpnManager::connect, up to the await
connect_begin(m) ==
    IF m.config = None THEN [mgr |-> m, ret |-> "Err"]
    ELSE IF m.status = "Connected" THEN [mgr |-> m, ret |-> "Err"]
    ELSE [mgr |-> [m EXCEPT !.status = "Connecting"], ret |-> "Pending"]

\* VpnManager::connect, after the await
connect_finish(m) == [m EXCEPT !.status = "Connected", !.stats = VpnStatsDefault]

\* VpnManager::update_stats
update_stats(m, stats) == [m EXCEPT !.stats = stats]

\* the record of a call: the manager when it began, its result, and the
\* manager at the await of connect() (None outside connect)
VpnCall(op, ret, before, at_await) ==
    [op |-> op, ret |-> ret, pre |-> before, at_await |-> at_await]

InitVpn ==
    /\ vpn = VpnManagerNew
    /\ vpn_log = VpnCall("new", "Ok", VpnManagerNew, None)
    /\ TabsInit
    /\ AppUnused
    /\ UrlUnused
    /\ ConvUnused
    /\ PwdUnused

\* no connect() is at its await
VpnIdle == vpn_log.ret # "Pending"

VpnStep(m, op, ret) ==
    /\ vpn' = m
    /\ vpn_log' = VpnCall(op, ret, vpn, None)
    /\ UNCHANGED <<tabVars, appVars, url_io, conv, pwdVars>>

Enable ==
    /\ VpnIdle
    /\ VpnStep(enable(vpn), "enable", "Ok")

Disable ==
    /\ VpnIdle
    /\ VpnStep(disable(vpn), "disable", "Ok")

SetConfig ==
    /\ VpnIdle
    /\ \E config \in VpnConfigs : VpnStep(set_config(vpn, config), "set_config", "Ok")

LoadOvpnConfig ==
    /\ VpnIdle
    /\ \E p \in OvpnPaths :
           VpnStep(load_ovpn_config(vpn, p).mgr, "load_ovpn_config",
                   load_ovpn_config(vpn, p).ret)

ConfigureProxy ==
    /\ VpnIdle
    /\ VpnStep(configure_proxy(vpn, "Https", "proxy.example.com", 3128),
               "configure_proxy", "Ok")

ConfigureSocks ==
    /\ VpnIdle
    /\ \E version \in SocksVersions :
           VpnStep(configure_socks(vpn, version, "socks.example.com", 1080).mgr,
                   "configure_socks",
                   configure_socks(vpn, version, "socks.example.com", 1080).ret)

Disconnect ==
    /\ VpnIdle
    /\ VpnStep(disconnect(vpn), "disconnect", "Ok")

UpdateStats ==
    /\ VpnIdle
    /\ \E stats \in VpnStatsValues : VpnStep(update_stats(vpn, stats), "update_stats", "Ok")

\* connect() is called and runs to its await, or returns an error
ConnectBegin ==
    /\ VpnIdle
    /\ vpn' = connect_begin(vpn).mgr
    /\ vpn_log' = VpnCall("connect", connect_begin(vpn).ret, vpn,
                          IF connect_begin(vpn).ret = "Pending"
                          THEN Some(connect_begin(vpn).mgr) ELSE None)
    /\ UNCHANGED <<tabVars, appVars, url_io, conv, pwdVars>>

\* the sleep is over and connect() runs to its end
ConnectFinish ==
    /\ vpn_log.op = "connect"
    /\ vpn_log.ret = "Pending"
    /\ vpn' = connect_finish(vpn)
    /\ vpn_log' = [vpn_log EXCEPT !.ret = "Ok"]
    /\ UNCHANGED <<tabVars, appVars, url_io, conv, pwdVars>>

\* the future of connect() is dropped at the await
ConnectDropped ==
    /\ vpn_log.op = "connect"
    /\ vpn_log.ret = "Pending"
    /\ vpn_log' = [vpn_log EXCEPT !.ret = "Dropped"]
    /\ UNCHANGED <<vpn, tabVars, appVars, url_io, conv, pwdVars>>

NextVpn ==
    \/ Enable
    \/ Disable
    \/ SetConfig
    \/ LoadOvpnConfig
    \/ ConfigureProxy
    \/ ConfigureSocks
    \/ Disconnect
    \/ UpdateStats
    \/ ConnectBegin
    \/ ConnectFinish
    \/ ConnectDropped

SpecVpn == InitVpn /\ [][NextVpn]_vars

\* ---- C30 ----
\* C30: status becomes Connected only by a connect() that began with a
\* configuration set and a status other than Connected and that was at
\* Connecting on the way; connect() without a configuration or when
\* Connected returns an error and leaves status as it was; disconnect()
\* changes status only when it was Connected; after disable() status is
\* not Connected
C30_StatusTransitions ==
    /\ (vpn.status = "Connected" /\ vpn_log.pre.status # "Connected") =>
           /\ vpn_log.op = "connect"
           /\ vpn_log.ret = "Ok"
           /\ vpn_log.pre.config # None
           /\ vpn_log.at_await # None
           /\ vpn_log.at_await[1].status = "Connecting"
    /\ (vpn_log.op = "connect"
        /\ (vpn_log.pre.config = None \/ vpn_log.pre.status = "Connected")) =>
           /\ vpn_log.ret = "Err"
           /\ vpn.status = vpn_log.pre.status
    /\ (vpn_log.op = "disconnect" /\ vpn_log.pre.status # "Connected") =>
           vpn.status = vpn_log.pre.status
    /\ (vpn_log.op = "disable") => vpn.status # "Connected"

\* disable() was called on a connected manager
C30_Witness ==
    /\ vpn_log.op = "disable"
    /\ vpn_log.pre.status = "Connected"
    /\ vpn_log.pre.enabled
    /\ vpn.status = "Disconnected"
    /\ vpn.config # None

====
